---- MODULE Spec2Model ----
(***************************************************************************)
(* State-machine model of the resilience primitives of the GMO Coin SDK    *)
(* and its service facade: the fixed-interval rate gate (FixedGate), the   *)
(* TTL/LRU cache (TtlCache), retryWithBackoff, CircuitBreaker and the      *)
(* idempotent order routes.  Every component has its own specification     *)
(* (SpecGate, SpecCache, ...) over the shared clock `now`; the variables   *)
(* of the other components stay at their initial values.                   *)
(*                                                                         *)
(* The runtime is the single-threaded JavaScript event loop: the code      *)
(* between two `await`s runs atomically, so one action models one such     *)
(* run-to-completion segment of a handler.                                 *)
(***************************************************************************)
EXTENDS Integers, Sequences, FiniteSets, TLC

VARIABLES
    now,          \* Date.now(), in ms
    \* ---- FixedGate (src/src/rateLimiter.ts)
    gOps,         \* constructor argument opsPerSec
    gLast,        \* FixedGate.last
    gPc,          \* per caller: "idle" | "sleeping" (inside setTimeout of wait())
    gWake,        \* per caller: earliest time its setTimeout may fire
    gReleases,    \* times at which wait() calls returned, in order of return
    gCallers,     \* the callers that use the gate
    \* ---- TtlCache (src/src/cache.ts)
    cCache,       \* TtlCache.cache: key -> [value, expiresAt], defined on the stored keys
    cOrder,       \* TtlCache.accessOrder
    cDefaultTtl,  \* TtlCache.defaultTtl
    cMaxSize,     \* TtlCache.maxSize
    cLast,        \* the last operation called on the cache, what it returned (val,
                  \* ok) and how many expired entries it removed (n)
    cTouch,       \* observer: the stored keys, least recently touched (set, get hit) first
    \* ---- retryWithBackoff (src/retry.ts)
    rOpts,        \* the options after the defaults are applied
    rPc,          \* "idle" | "calling" | "sleeping" | "returned" | "raised"
    rAttempt,     \* attempt
    rLastError,   \* lastError
    rInvocations, \* observer: number of calls of fn
    rFailures,    \* observer: number of calls of fn that rejected
    rSleeps,      \* observer: number of sleep(delay) calls
    rDelay,       \* the delay of the last sleep
    rThrown,      \* observer: the value fn rejected with last
    rRaised,      \* the value retryWithBackoff rejected with
    \* ---- CircuitBreaker (src/retry.ts)
    bOpts,        \* CircuitBreaker.options
    bState,       \* CircuitBreaker.state
    bFailureCount,\* CircuitBreaker.failureCount
    bSuccessCount,\* CircuitBreaker.successCount
    bNext,        \* CircuitBreaker.nextAttemptTime (<<>> when it is NaN)
    bCalls,       \* per execute() call in progress: its position, its `now`, whether it is a probe
    bExecs,       \* observer: number of execute() calls made
    bLast,        \* observer: what the last step of an execute() call did
    \* ---- idempotency cache and order routes (service/)
    iRedisOn,     \* getRedis() returns a client (REDIS_URL is set)
    iRedisStatus, \* client.status: "wait" | "ready" | "end"
    iStore,       \* idempotency.ts `store`: key -> Entry
    iRemote,      \* the shared store: key -> [raw, expiresAt]
    iReqs,        \* per order request: its position in the handler, its key, its reply
    iPlacements,  \* observer: number of placeOrder calls made upstream
    iLast,        \* observer: the last direct getIdempotent / setIdempotent call
    iSets,        \* observer: key -> the entry of the most recent setIdempotent(key)
    \* ---- service rate-limit gate on the shared store (service/lib/rateLimiter.ts)
    wClass,       \* the traffic class of the gate under study: "get" | "post" | "ws"
    wKeys,        \* the shared store: window second -> [n, expiresAt] of key `${key}:${sec}`
    wCalls,       \* per caller of waitGate: its position, the second it read, its wake-up time
    wAdmitted,    \* observer: window second -> number of callers admitted on its counter
    \* ---- public REST client (src/rest-public.ts)
    pTtl,         \* the ttl its TtlCache was built with (cacheTtl ?? 1000)
    pCache,       \* the entries of its TtlCache: cache key -> [value, expiresAt]
    pCalls,       \* per method call: its position, method, arguments and result
    pFetches,     \* observer: number of transport calls (_get) made
    pRet,         \* observer: cache key -> time and value of the last return of a call that fetched
    \* ---- WebSocket clients (src/ws-private.ts, src/ws-public.ts)
    xClients,     \* per client: its fields ws, pingTimer, closed, its socket and its connect() promise
    xLast,        \* observer: the last connect() / close() / subscribe() call and how it ended
    xGateLast,    \* the field `last` of wsGate
    \* ---- private REST client (src/rest.ts) behind the service's gated routes
    qLast,        \* verb -> the field `last` of getGate / postGate
    qCalls,       \* per request: its position, verb, entry point and what it recorded
    qMetrics,     \* metricsCollector.endpoints: verb -> [requestCount, errorCount]
    \* ---- SSE bridge, one established stream (service/routes/stream.ts)
    eClosed,      \* the flag `closed` of the stream
    eReconnecting,\* the flag `reconnecting`
    eLoop,        \* onClose's loop: its position, attempt, client and timer
    eClients,     \* per upstream FxPrivateWsClient: its socket, whether close() was called, its listeners
    eCurrent,     \* observer: the client that was connected and subscribed last
    eExtend,      \* the token auto-extend timer: "off" | "scheduled" | "extending"
    eWritten,     \* observer: number of events written to the response
    eLastEvent    \* observer: the last event written

gateVars == <<gOps, gLast, gPc, gWake, gReleases, gCallers>>
cacheVars == <<cCache, cOrder, cDefaultTtl, cMaxSize, cLast, cTouch>>

retryVars == <<rOpts, rPc, rAttempt, rLastError, rInvocations, rFailures, rSleeps, rDelay,
               rThrown, rRaised>>

brkVars == <<bOpts, bState, bFailureCount, bSuccessCount, bNext, bCalls, bExecs, bLast>>

idemVars == <<iRedisOn, iRedisStatus, iStore, iRemote, iReqs, iPlacements, iLast, iSets>>

svcVars == <<wClass, wKeys, wCalls, wAdmitted>>

pubVars == <<pTtl, pCache, pCalls, pFetches, pRet>>

wsVars == <<xClients, xLast, xGateLast>>

restVars == <<qLast, qCalls, qMetrics>>

sseVars == <<eClosed, eReconnecting, eLoop, eClients, eCurrent, eExtend, eWritten, eLastEvent>>

vars == <<now, gateVars, cacheVars, retryVars, brkVars, idemVars, svcVars, pubVars, wsVars,
          restVars, sseVars>>

\* what the actions of one component leave alone
notGate == <<cacheVars, retryVars, brkVars, idemVars, svcVars, pubVars, wsVars, restVars, sseVars>>
notCache == <<gateVars, retryVars, brkVars, idemVars, svcVars, pubVars, wsVars, restVars, sseVars>>
notRetry == <<gateVars, cacheVars, brkVars, idemVars, svcVars, pubVars, wsVars, restVars, sseVars>>
notBrk == <<gateVars, cacheVars, retryVars, idemVars, svcVars, pubVars, wsVars, restVars, sseVars>>
notIdem == <<gateVars, cacheVars, retryVars, brkVars, svcVars, pubVars, wsVars, restVars, sseVars>>
notSvc == <<gateVars, cacheVars, retryVars, brkVars, idemVars, pubVars, wsVars, restVars, sseVars>>
notPub == <<gateVars, cacheVars, retryVars, brkVars, idemVars, svcVars, wsVars, restVars, sseVars>>
notWs == <<gateVars, cacheVars, retryVars, brkVars, idemVars, svcVars, pubVars, restVars, sseVars>>
notRest == <<gateVars, cacheVars, retryVars, brkVars, idemVars, svcVars, pubVars, wsVars, sseVars>>
notSse == <<gateVars, cacheVars, retryVars, brkVars, idemVars, svcVars, pubVars, wsVars, restVars>>

Max(a, b) == IF a >= b THEN a ELSE b
Min(a, b) == IF a <= b THEN a ELSE b

\* Math.ceil(a / b) for positive integers
CeilDiv(a, b) == (a + b - 1) \div b

(***************************************************************************)
(* Bounds of the model                                                     *)
(***************************************************************************)
\* the clock starts here: Date.now() is far past any interval from the epoch
Epoch == 1000
\* number of concurrent callers of one gate
NumCallers == 3
\* total number of wait() calls issued on the gate
MaxWaitCalls == 3
\* the clock is explored for this many ms after Epoch
GateHorizon == 8

(***************************************************************************)
(* TtlCache                                                                *)
(***************************************************************************)
\* a missing argument or option, and the value of a miss
Undefined == "undefined"

\* keys are strings; the empty string is the one falsy key
Keys == {"", "a", "b"}
Values == {"v1", "v2"}

\* constructor: options?.ttl ?? 1000, options?.maxSize ?? 1000
DefaultTtlMs == 1000
DefaultMaxSize == 1000
\* largest maxSize the cache is built with
MaxMaxSize == 2
\* the clock is explored for this many ms after Epoch
CacheHorizon == 2
\* ttl option of the constructor, and ttl argument of set()
\* (an optional number is <<>> when it is missing and <<n>> when it is given)
TtlOptions == {<<1>>}
TtlArgs == {<<>>, <<2>>}

\* x ?? d
OrDefault(x, d) == IF x = <<>> THEN d ELSE x[1]

NoCacheOp == [op |-> "none", key |-> "", val |-> Undefined, ok |-> FALSE, n |-> 0]
CacheOp(op, key, val, ok, n) == [op |-> op, key |-> key, val |-> val, ok |-> ok, n |-> n]

\* Array.prototype.indexOf: the first index of k in s, 0 when there is none
IndexOf(s, k) ==
    IF \E i \in 1..Len(s) : s[i] = k
    THEN CHOOSE i \in 1..Len(s) : s[i] = k /\ \A j \in 1..(i - 1) : s[j] # k
    ELSE 0

\* removeFromAccessOrder: splice out the first occurrence of key
RemoveFromAccessOrder(order, key) ==
    LET i == IndexOf(order, key) IN
      IF i > 0 THEN SubSeq(order, 1, i - 1) \o SubSeq(order, i + 1, Len(order))
      ELSE order

\* updateAccessOrder: remove, then push
UpdateAccessOrder(order, key) == Append(RemoveFromAccessOrder(order, key), key)

\* Map.delete
MapDelete(m, key) == [k \in (DOMAIN m) \ {key} |-> m[k]]
\* Map.set
MapSet(m, key, e) == [k \in (DOMAIN m) \cup {key} |-> IF k = key THEN e ELSE m[k]]

\* size()
CacheSize == Cardinality(DOMAIN cCache)

\* an expiry test that still serves the entry at the instant it expires
ExpiredAfter(e) == now > e.expiresAt

\* Date.now() >= entry.expiresAt
Expired(e) == now >= e.expiresAt

\* JavaScript truthiness of a string key: only "" is falsy
Truthy(key) == key # ""

\* the observer's view of a touch and of a removal
Touch(t, key) == Append(SelectSeq(t, LAMBDA k : k # key), key)
Untouch(t, gone) == SelectSeq(t, LAMBDA k : k \notin gone)

\* get(key): lines 45-61
CacheGet(key) ==
    /\ IF key \notin DOMAIN cCache
       THEN /\ cLast' = CacheOp("get", key, Undefined, FALSE, 0)
            /\ UNCHANGED <<cCache, cOrder>>
       ELSE IF Expired(cCache[key])
       THEN /\ cCache' = MapDelete(cCache, key)
            /\ cOrder' = RemoveFromAccessOrder(cOrder, key)
            /\ cLast' = CacheOp("get", key, Undefined, FALSE, 1)
       ELSE /\ cOrder' = UpdateAccessOrder(cOrder, key)
            /\ cLast' = CacheOp("get", key, cCache[key].value, TRUE, 0)
            /\ UNCHANGED cCache
    /\ cTouch' = IF key \in DOMAIN cCache'
                 THEN Touch(cTouch, key)
                 ELSE Untouch(cTouch, {key})
    /\ UNCHANGED <<now, cDefaultTtl, cMaxSize, notCache>>

\* the eviction of set(): lines 84-89, on the map and the order after the push
Evict(m, order) ==
    IF Cardinality(DOMAIN m) > cMaxSize
    THEN LET oldestKey == Head(order) IN
           <<IF Truthy(oldestKey) THEN MapDelete(m, oldestKey) ELSE m, Tail(order)>>
    ELSE <<m, order>>

\* set(key, value, ttl): lines 66-90
CacheSet(key, value, ttl) ==
    LET ttlMs == OrDefault(ttl, cDefaultTtl)
        order1 == IF key \in DOMAIN cCache
                  THEN RemoveFromAccessOrder(cOrder, key)
                  ELSE cOrder
        m1 == MapSet(cCache, key, [value |-> value, expiresAt |-> now + ttlMs])
        order2 == Append(order1, key)
        after == Evict(m1, order2)
    IN /\ cCache' = after[1]
       /\ cOrder' = after[2]
       /\ cLast' = CacheOp("set", key, value, FALSE, 0)
       /\ cTouch' = Untouch(Touch(cTouch, key), Keys \ DOMAIN cCache')
       /\ UNCHANGED <<now, cDefaultTtl, cMaxSize, notCache>>

\* a has() that counted as a use of a live key
CacheHasTouching(key) ==
    /\ IF key \notin DOMAIN cCache
       THEN /\ cLast' = CacheOp("has", key, Undefined, FALSE, 0)
            /\ UNCHANGED <<cCache, cOrder>>
       ELSE IF Expired(cCache[key])
       THEN /\ cCache' = MapDelete(cCache, key)
            /\ cOrder' = RemoveFromAccessOrder(cOrder, key)
            /\ cLast' = CacheOp("has", key, Undefined, FALSE, 1)
       ELSE /\ cLast' = CacheOp("has", key, Undefined, TRUE, 0)
            /\ cOrder' = UpdateAccessOrder(cOrder, key)
            /\ UNCHANGED cCache
    /\ cTouch' = Untouch(cTouch, Keys \ DOMAIN cCache')
    /\ UNCHANGED <<now, cDefaultTtl, cMaxSize, notCache>>

\* has(key): lines 95-106
CacheHas(key) ==
    /\ IF key \notin DOMAIN cCache
       THEN /\ cLast' = CacheOp("has", key, Undefined, FALSE, 0)
            /\ UNCHANGED <<cCache, cOrder>>
       ELSE IF Expired(cCache[key])
       THEN /\ cCache' = MapDelete(cCache, key)
            /\ cOrder' = RemoveFromAccessOrder(cOrder, key)
            /\ cLast' = CacheOp("has", key, Undefined, FALSE, 1)
       ELSE /\ cLast' = CacheOp("has", key, Undefined, TRUE, 0)
            /\ UNCHANGED <<cCache, cOrder>>
    /\ cTouch' = Untouch(cTouch, Keys \ DOMAIN cCache')
    /\ UNCHANGED <<now, cDefaultTtl, cMaxSize, notCache>>

\* delete(key): lines 111-114
CacheDelete(key) ==
    /\ cOrder' = RemoveFromAccessOrder(cOrder, key)
    /\ cCache' = MapDelete(cCache, key)
    /\ cLast' = CacheOp("delete", key, Undefined, key \in DOMAIN cCache, 0)
    /\ cTouch' = Untouch(cTouch, {key})
    /\ UNCHANGED <<now, cDefaultTtl, cMaxSize, notCache>>

\* clear(): lines 119-122
CacheClear ==
    /\ cCache' = <<>>
    /\ cOrder' = <<>>
    /\ cLast' = CacheOp("clear", "", Undefined, FALSE, 0)
    /\ cTouch' = <<>>
    /\ UNCHANGED <<now, cDefaultTtl, cMaxSize, notCache>>

KeepAll(order, ks) == order

\* removeFromAccessOrder applied for every key of a set (delete() of each)
RECURSIVE RemoveAll(_, _)
RemoveAll(order, ks) ==
    IF ks = {} THEN order
    ELSE LET k == CHOOSE x \in ks : TRUE
         IN RemoveAll(RemoveFromAccessOrder(order, k), ks \ {k})

\* cleanup(): lines 142-156
CacheCleanup ==
    LET keysToDelete == {k \in DOMAIN cCache : Expired(cCache[k])} IN
      /\ cCache' = [k \in (DOMAIN cCache) \ keysToDelete |-> cCache[k]]
      /\ cOrder' = RemoveAll(cOrder, keysToDelete)
      /\ cLast' = CacheOp("cleanup", "", Undefined, FALSE, Cardinality(keysToDelete))
      /\ cTouch' = Untouch(cTouch, keysToDelete)
      /\ UNCHANGED <<now, cDefaultTtl, cMaxSize, notCache>>

\* the clock advances by 1 ms
CacheTick ==
    /\ now < Epoch + CacheHorizon
    /\ now' = now + 1
    /\ UNCHANGED <<cacheVars, notCache>>

CacheIdle ==
    /\ cCache = <<>>
    /\ cOrder = <<>>
    /\ cDefaultTtl = DefaultTtlMs
    /\ cMaxSize = DefaultMaxSize
    /\ cLast = NoCacheOp
    /\ cTouch = <<>>

\* new TtlCache(options): lines 36-39
CacheInit ==
    /\ now = Epoch
    /\ cCache = <<>>
    /\ cOrder = <<>>
    /\ \E ttl \in TtlOptions : cDefaultTtl = OrDefault(ttl, DefaultTtlMs)
    /\ cMaxSize \in 0..MaxMaxSize
    /\ cLast = NoCacheOp
    /\ cTouch = <<>>

(***************************************************************************)
(* FixedGate                                                               *)
(***************************************************************************)
\* opsPerSec values the gate is built with: 6 is getGate (167 ms); the
\* others give intervals of 2..4 ms, which the explored horizon covers.
OpsChoices == {6, 250, 334, 500}

\* an interval that is rounded down
IntervalFloor(ops) == 1000 \div ops

\* constructor: this.intervalMs = Math.ceil(1000 / opsPerSec)
IntervalMs(ops) == CeilDiv(1000, ops)

gIntervalMs == IntervalMs(gOps)

Callers == 1..NumCallers

GateIssued == Len(gReleases) + Cardinality({c \in gCallers : gPc[c] = "sleeping"})

\* wait(), from the call to its first suspension (or to its return when it
\* does not suspend): lines 9-12
WaitCall(c) ==
    /\ c \in gCallers
    /\ gPc[c] = "idle"
    /\ GateIssued < MaxWaitCalls
    /\ LET diff == now - gLast IN
         IF diff < gIntervalMs
         THEN /\ gPc' = [gPc EXCEPT ![c] = "sleeping"]
              /\ gWake' = [gWake EXCEPT ![c] = now + (gIntervalMs - diff)]
              /\ UNCHANGED <<gLast, gReleases>>
         ELSE /\ gLast' = now
              /\ gReleases' = Append(gReleases, now)
              /\ UNCHANGED <<gPc, gWake>>
    /\ UNCHANGED <<now, gOps, gCallers, notGate>>

\* wait(), resumed by its timer: line 12, this.last = Date.now()
WaitWake(c) ==
    /\ c \in gCallers
    /\ gPc[c] = "sleeping"
    /\ now >= gWake[c]
    /\ gLast' = now
    /\ gReleases' = Append(gReleases, now)
    /\ gPc' = [gPc EXCEPT ![c] = "idle"]
    /\ gWake' = [gWake EXCEPT ![c] = 0]
    /\ UNCHANGED <<now, gOps, gCallers, notGate>>

\* the clock advances by 1 ms
GateTick ==
    /\ now < Epoch + GateHorizon
    /\ now' = now + 1
    /\ UNCHANGED <<gateVars, notGate>>

GateIdle ==
    /\ gOps = 6
    /\ gLast = 0
    /\ gPc = [c \in Callers |-> "idle"]
    /\ gWake = [c \in Callers |-> 0]
    /\ gReleases = <<>>
    /\ gCallers = {}

GateInit(callers) ==
    /\ now = Epoch
    /\ gOps \in OpsChoices
    /\ gLast = 0
    /\ gPc = [c \in Callers |-> "idle"]
    /\ gWake = [c \in Callers |-> 0]
    /\ gReleases = <<>>
    /\ gCallers = callers

(***************************************************************************)
(* retryWithBackoff (src/retry.ts)                                         *)
(***************************************************************************)
\* Strings that are inspected character by character are tuples of characters.
MsgTimeout == <<"t", "i", "m", "e", "o", "u", "t">>
MsgErr201 == <<"E", "R", "R", "-", "2", "0", "1">>
MsgErr5003 == <<"E", "R", "R", "-", "5", "0", "0", "3">>
MsgFail == <<"f", "a", "i", "l">>
\* the text errText() builds for a rejected order (HTTP 400, ERR-201) whose
\* response body carries the time stamp "...06.500Z"
MsgErr201At500 == <<"4", "0", "0", " ", "E", "R", "R", "-", "2", "0", "1", " ", "0", "6", ".", "5", "0", "0", "Z">>
MsgObject == <<"[", "o", "b", "j", "e", "c", "t", " ", "O", "b", "j", "e", "c", "t", "]">>
MsgRetryFailed == <<"R", "e", "t", "r", "y", " ", "f", "a", "i", "l", "e", "d">>

PatTimeout == <<"t", "i", "m", "e", "o", "u", "t">>
PatConnRefused == <<"e", "c", "o", "n", "n", "r", "e", "f", "u", "s", "e", "d">>
PatNotFound == <<"e", "n", "o", "t", "f", "o", "u", "n", "d">>
PatErr5003 == <<"e", "r", "r", "-", "5", "0", "0", "3">>
PatRateLimit == <<"r", "a", "t", "e", " ", "l", "i", "m", "i", "t">>
Pat500 == <<"5", "0", "0">>
Pat502 == <<"5", "0", "2">>
Pat503 == <<"5", "0", "3">>
Pat504 == <<"5", "0", "4">>
PatTempUnavailable == <<"t", "e", "m", "p", "o", "r", "a", "r", "i", "l", "y", " ", "u", "n", "a", "v", "a", "i", "l", "a", "b", "l", "e">>

UpperChars == <<"A", "B", "C", "D", "E", "F", "G", "H", "I", "J", "K", "L", "M", "N", "O", "P", "Q", "R", "S", "T", "U", "V", "W", "X", "Y", "Z">>
LowerChars == <<"a", "b", "c", "d", "e", "f", "g", "h", "i", "j", "k", "l", "m", "n", "o", "p", "q", "r", "s", "t", "u", "v", "w", "x", "y", "z">>

\* String.prototype.toLowerCase
ToLowerCase(s) ==
    [i \in 1..Len(s) |->
        IF \E j \in 1..Len(UpperChars) : UpperChars[j] = s[i]
        THEN LowerChars[CHOOSE j \in 1..Len(UpperChars) : UpperChars[j] = s[i]]
        ELSE s[i]]

\* String.prototype.includes
Includes(s, pat) ==
    \E i \in 1..(Len(s) - Len(pat) + 1) : SubSeq(s, i, i + Len(pat) - 1) = pat

\* A value a promise rejects with: an Error object (its identity is id, its
\* message msg), a string, or a plain object.
ErrorObject(id, msg) == [kind |-> "Error", id |-> id, msg |-> msg]
StringValue(msg) == [kind |-> "string", id |-> 0, msg |-> msg]
PlainObject(id) == [kind |-> "object", id |-> id, msg |-> <<>>]
NoValue == [kind |-> "none", id |-> 0, msg |-> <<>>]

\* error instanceof Error
IsError(v) == v.kind = "Error"

\* String(error) for a value that is no Error
StringOf(v) == IF v.kind = "string" THEN v.msg ELSE MsgObject

\* an Error object made by retryWithBackoff itself has identity 0: it is
\* none of the objects the operation holds
NewError(msg) == ErrorObject(0, msg)

\* what the wrapped operation may reject with
Thrown ==
    { ErrorObject(1, MsgTimeout), ErrorObject(2, MsgErr201), ErrorObject(3, MsgErr5003),
      StringValue(MsgTimeout), StringValue(MsgFail), PlainObject(4),
      ErrorObject(5, MsgErr201At500) }

\* the permanent errors among them: 4xx business errors of the API
PermanentErrors == { ErrorObject(2, MsgErr201), ErrorObject(5, MsgErr201At500) }

\* isRetryableError: lines 26-52
IsRetryableError(error) ==
    IF ~IsError(error) THEN FALSE
    ELSE LET msg == ToLowerCase(error.msg) IN
           \/ Includes(msg, PatTimeout) \/ Includes(msg, PatConnRefused) \/ Includes(msg, PatNotFound)
           \/ Includes(msg, PatErr5003) \/ Includes(msg, PatRateLimit)
           \/ Includes(msg, Pat500) \/ Includes(msg, Pat502) \/ Includes(msg, Pat503) \/ Includes(msg, Pat504)
           \/ Includes(msg, PatTempUnavailable)

\* the shouldRetry option: the default, or a predicate of the caller
\*   "err5003":  (error) => error.message.includes('ERR-5003')
\*   "never":    () => false
\*   "always":   () => true
\*   "first":    (error, attempt) => attempt < 1
Predicates == {"err5003", "never", "always", "first"}
ShouldRetry(pred, error, attempt) ==
    CASE pred = "default" -> IsRetryableError(error)
      [] pred = "err5003" -> Includes(error.msg, MsgErr5003)
      [] pred = "never" -> FALSE
      [] pred = "always" -> TRUE
      [] pred = "first" -> attempt < 1

\* defaults of the options: lines 103-108 (jitterFactor in percent)
DefaultMaxRetries == 3
DefaultInitialDelay == 100
DefaultMaxDelay == 10000
DefaultBackoffMultiplier == 2
DefaultJitterPct == 10

\* largest maxRetries given explicitly
MaxMaxRetries == 2

\* the options objects retryWithBackoff is called with; {} is AllDefaults
AllDefaults ==
    [maxRetries |-> <<>>, initialDelay |-> <<>>, maxDelay |-> <<>>,
     backoffMultiplier |-> <<>>, jitterPct |-> <<>>, shouldRetry |-> "default"]
RetryOptionChoices ==
    {AllDefaults} \cup
    { [maxRetries |-> <<m>>, initialDelay |-> <<2>>, maxDelay |-> <<3>>,
       backoffMultiplier |-> <<>>, jitterPct |-> j, shouldRetry |-> p] :
        m \in (-1)..MaxMaxRetries, j \in {<<0>>, <<50>>, <<200>>},
        p \in Predicates \cup {"default"} }

\* the destructuring with defaults: lines 102-109
EffectiveOptions(o) ==
    [maxRetries |-> OrDefault(o.maxRetries, DefaultMaxRetries),
     initialDelay |-> OrDefault(o.initialDelay, DefaultInitialDelay),
     maxDelay |-> OrDefault(o.maxDelay, DefaultMaxDelay),
     backoffMultiplier |-> OrDefault(o.backoffMultiplier, DefaultBackoffMultiplier),
     jitterPct |-> OrDefault(o.jitterPct, DefaultJitterPct),
     shouldRetry |-> o.shouldRetry]

\* Math.pow for a natural exponent
RECURSIVE Pow(_, _)
Pow(b, e) == IF e = 0 THEN 1 ELSE b * Pow(b, e - 1)

ExponentialDelayNext(attempt, o) ==
    Min(o.initialDelay * Pow(o.backoffMultiplier, attempt + 1), o.maxDelay)

\* calculateDelay, line 65-68
ExponentialDelay(attempt, o) ==
    Min(o.initialDelay * Pow(o.backoffMultiplier, attempt), o.maxDelay)

\* calculateDelay, lines 70-72: the delays Math.random() in [0, 1) can give,
\* in whole ms: jitter = (random - 0.5) * 2 * jitterFactor * exponentialDelay
CalculateDelay(attempt, o) ==
    LET e == ExponentialDelay(attempt, o)
        span == o.jitterPct * e          \* 100 * the largest |jitter|
        J == span \div 100
    IN { Max(1, e + j) : j \in {x \in (-J)..J : x * 100 < span \/ span = 0} }

\* line 118: error instanceof Error ? error : new Error(String(error))
AsLastError(error) == IF IsError(error) THEN error ELSE NewError(StringOf(error))

GivesUpOnlyWhenBoth(canRetry, attempt, maxRetries) == ~canRetry /\ attempt >= maxRetries

\* line 122: the catch block gives up
GivesUp(canRetry, attempt, maxRetries) == ~canRetry \/ attempt >= maxRetries

LoopContinuesOneMore(attempt, maxRetries) == attempt <= maxRetries + 1

\* line 114: the loop condition
LoopContinues(attempt, maxRetries) == attempt <= maxRetries

\* line 116, `return await fn()` with fn() resolved: what it does to the loop
LoopReturn ==
    /\ rPc = "calling"
    /\ LoopContinues(rAttempt, rOpts.maxRetries)
    /\ rInvocations' = rInvocations + 1
    /\ rPc' = "returned"
    /\ UNCHANGED <<rOpts, rAttempt, rLastError, rFailures, rSleeps, rDelay, rThrown, rRaised>>

\* one iteration of the loop in which fn() resolves: line 116
RetrySucceeds ==
    /\ LoopReturn
    /\ UNCHANGED <<now, notRetry>>

\* the catch block, lines 117-128, entered with `error`
LoopCatch(error) ==
    /\ rPc = "calling"
    /\ LoopContinues(rAttempt, rOpts.maxRetries)
    /\ rInvocations' = rInvocations + 1
    /\ rFailures' = rFailures + 1
    /\ rThrown' = error
    /\ LET lastError == AsLastError(error)
           canRetry == ShouldRetry(rOpts.shouldRetry, lastError, rAttempt)
       IN /\ rLastError' = lastError
          /\ IF GivesUp(canRetry, rAttempt, rOpts.maxRetries)
             THEN /\ rPc' = "raised"
                  /\ rRaised' = lastError
                  /\ UNCHANGED <<rSleeps, rDelay>>
             ELSE /\ rPc' = "sleeping"
                  /\ rDelay' \in CalculateDelay(rAttempt, rOpts)
                  /\ rSleeps' = rSleeps + 1
                  /\ UNCHANGED rRaised
    /\ UNCHANGED <<rOpts, rAttempt>>

\* one iteration of the loop in which fn() rejects with `error`: lines 116-128
RetryFails(error) ==
    /\ LoopCatch(error)
    /\ UNCHANGED <<now, notRetry>>

\* sleep(delay) is over: lines 128-129
RetryWake ==
    /\ rPc = "sleeping"
    /\ now' = now + rDelay
    /\ rAttempt' = rAttempt + 1
    /\ rPc' = "calling"
    /\ UNCHANGED <<rOpts, rLastError, rInvocations, rFailures, rSleeps, rDelay, rThrown, rRaised, notRetry>>

\* the loop ends without a return or a throw: line 134
RetryLoopEnds ==
    /\ rPc = "calling"
    /\ ~LoopContinues(rAttempt, rOpts.maxRetries)
    /\ rPc' = "raised"
    /\ rRaised' = IF rLastError = NoValue THEN NewError(MsgRetryFailed) ELSE rLastError
    /\ UNCHANGED <<now, rOpts, rAttempt, rLastError, rInvocations, rFailures, rSleeps, rDelay, rThrown, notRetry>>

RetryIdle ==
    /\ rOpts = EffectiveOptions(AllDefaults)
    /\ rPc = "idle"
    /\ rAttempt = 0
    /\ rLastError = NoValue
    /\ rInvocations = 0
    /\ rFailures = 0
    /\ rSleeps = 0
    /\ rDelay = 0
    /\ rThrown = NoValue
    /\ rRaised = NoValue

\* retryWithBackoff(fn, options) is called: lines 98-112
RetryInit ==
    /\ now = Epoch
    /\ \E o \in RetryOptionChoices : rOpts = EffectiveOptions(o)
    /\ rPc = "calling"
    /\ rAttempt = 0
    /\ rLastError = NoValue
    /\ rInvocations = 0
    /\ rFailures = 0
    /\ rSleeps = 0
    /\ rDelay = 0
    /\ rThrown = NoValue
    /\ rRaised = NoValue

(***************************************************************************)
(* CircuitBreaker (src/retry.ts)                                           *)
(***************************************************************************)
\* defaults of the options object: lines 149-153
DefaultFailureThreshold == 5
DefaultSuccessThreshold == 2
DefaultTimeout == 60000

\* largest threshold given explicitly
MaxThreshold == 2
\* the timeout given explicitly, in ms
ShortTimeout == 2
\* number of execute() calls that may overlap
NumExecSlots == 2
\* total number of execute() calls
MaxExecs == 5
\* the clock is explored for this many ms after Epoch and after each jump
BrkHorizon == 2

ExecSlots == 1..NumExecSlots

\* the options argument of the constructor; a missing property is <<>>
BreakerDefaults ==
    [failureThreshold |-> <<DefaultFailureThreshold>>,
     successThreshold |-> <<DefaultSuccessThreshold>>,
     timeout |-> <<DefaultTimeout>>]
BreakerOptionChoices ==
    { [failureThreshold |-> <<f>>, successThreshold |-> <<s>>, timeout |-> <<ShortTimeout>>] :
        f \in 1..MaxThreshold, s \in 1..MaxThreshold }
    \cup { [failureThreshold |-> <<2>>, successThreshold |-> <<>>, timeout |-> <<>>],
           [failureThreshold |-> <<1>>, successThreshold |-> <<>>, timeout |-> <<ShortTimeout>>] }

\* JavaScript arithmetic and comparison with a number that may be undefined
\* (NaN after conversion): a comparison with NaN is false, a sum with it is NaN
\* a threshold test that needs one more than the threshold
JsGt(a, b) == b # <<>> /\ a > b[1]
JsGe(a, b) == b # <<>> /\ a >= b[1]
JsLt(a, b) == b # <<>> /\ a < b[1]
JsAdd(a, b) == IF b = <<>> THEN <<>> ELSE <<a + b[1]>>
JsSub(a, b) == IF a = <<>> THEN <<>> ELSE <<a[1] - b>>

IdleCall == [pc |-> "idle", start |-> 0, probe |-> FALSE]
InFlight == {s \in ExecSlots : bCalls[s].pc = "inflight"}

NoExec == [kind |-> "none", remaining |-> <<>>]

\* a breaker that never lets a call through once it is OPEN
RejectsWhileOpen(state, t, next) == state = "OPEN"

RejectsOffByOne(state, t, next) == state = "OPEN" /\ JsLt(t + 1, next)

\* lines 160-161: the call is rejected without invoking fn
Rejects(state, t, next) == state = "OPEN" /\ JsLt(t, next)

\* execute(), from the call to `await this.fn()`: what it does to the breaker
ExecuteEntry(s) ==
    /\ bCalls[s].pc = "idle"
    /\ bExecs < MaxExecs
    /\ bExecs' = bExecs + 1
    /\ IF Rejects(bState, now, bNext)
       THEN /\ bLast' = [kind |-> "open", remaining |-> JsSub(bNext, now)]
            /\ UNCHANGED <<bState, bCalls>>
       ELSE /\ bState' = IF bState = "OPEN" THEN "HALF_OPEN" ELSE bState
            /\ bCalls' = [bCalls EXCEPT ![s] =
                            [pc |-> "inflight", start |-> now, probe |-> bState' = "HALF_OPEN"]]
            /\ bLast' = [kind |-> "invoked", remaining |-> <<>>]
    /\ UNCHANGED <<bOpts, bFailureCount, bSuccessCount, bNext>>

\* execute(), from the call to `await this.fn()`: lines 157-168
Execute(s) ==
    /\ ExecuteEntry(s)
    /\ UNCHANGED <<now, notBrk>>

\* the success path, lines 170-180: what it does to the breaker
ExecuteSuccess(s) ==
    /\ bCalls[s].pc = "inflight"
    /\ bFailureCount' = 0
    /\ IF bState = "HALF_OPEN"
       THEN IF JsGe(bSuccessCount + 1, bOpts.successThreshold)
            THEN bState' = "CLOSED" /\ bSuccessCount' = 0
            ELSE bState' = bState /\ bSuccessCount' = bSuccessCount + 1
       ELSE UNCHANGED <<bState, bSuccessCount>>
    /\ bCalls' = [bCalls EXCEPT ![s] = IdleCall]
    /\ bLast' = [kind |-> "resolved", remaining |-> <<>>]
    /\ UNCHANGED <<bOpts, bNext, bExecs>>

\* execute(), fn() resolved: lines 170-180
FnResolves(s) ==
    /\ ExecuteSuccess(s)
    /\ UNCHANGED <<now, notBrk>>

\* the catch block, lines 181-192: what it does to the breaker; `now` is
\* the time of the call
ExecuteFailure(s) ==
    /\ bCalls[s].pc = "inflight"
    /\ bSuccessCount' = 0
    /\ bFailureCount' = bFailureCount + 1
    /\ IF JsGe(bFailureCount + 1, bOpts.failureThreshold)
       THEN /\ bState' = "OPEN"
            /\ bNext' = JsAdd(bCalls[s].start, bOpts.timeout)
       ELSE UNCHANGED <<bState, bNext>>
    /\ bCalls' = [bCalls EXCEPT ![s] = IdleCall]
    /\ bLast' = [kind |-> "error", remaining |-> <<>>]
    /\ UNCHANGED <<bOpts, bExecs>>

\* execute(), fn() rejected: lines 181-192
FnRejects(s) ==
    /\ ExecuteFailure(s)
    /\ UNCHANGED <<now, notBrk>>

\* the clock advances: by 1 ms, or by the configured timeout
BrkTick ==
    /\ \E d \in {1} \cup {bOpts.timeout[i] : i \in DOMAIN bOpts.timeout} :
         /\ now' = now + d
         /\ now' <= Epoch + OrDefault(bOpts.timeout, 0) + BrkHorizon
         /\ d = 1 => (now' - Epoch) % Max(OrDefault(bOpts.timeout, 1), BrkHorizon + 1) <= BrkHorizon
    /\ UNCHANGED <<brkVars, notBrk>>

BrkIdle ==
    /\ bOpts = BreakerDefaults
    /\ bState = "CLOSED"
    /\ bFailureCount = 0
    /\ bSuccessCount = 0
    /\ bNext = <<0>>
    /\ bCalls = [s \in ExecSlots |-> IdleCall]
    /\ bExecs = 0
    /\ bLast = NoExec

\* new CircuitBreaker(fn, options): lines 142-154; the default applies only
\* when no options object is passed
BrkInit ==
    /\ now = Epoch
    /\ bOpts \in {BreakerDefaults} \cup BreakerOptionChoices
    /\ bState = "CLOSED"
    /\ bFailureCount = 0
    /\ bSuccessCount = 0
    /\ bNext = <<0>>
    /\ bCalls = [s \in ExecSlots |-> IdleCall]
    /\ bExecs = 0
    /\ bLast = NoExec

(***************************************************************************)
(* Idempotency cache (service/lib/idempotency.ts, service/lib/redis.ts)    *)
(* and the order routes (service/routes/orders.ts)                         *)
(***************************************************************************)
\* setIdempotent's default ttlMs: 10 * 60 * 1000
IdemDefaultTtlMs == 600000

\* number of order requests
NumRequests == 2
\* the clock is explored for this many ms after Epoch and after each jump
IdemHorizon == 1

Requests == 1..NumRequests
\* a request and its re-sends by the client
ResendRequests == 1..(NumRequests + 1)
ResendKey == "k1"
\* the Idempotency-Key header; "" stands for a missing or empty header
IdemHeaders == {"", "k1"}
Tenants == {"t1", "t2"}
DefaultTenant == "t1"
\* where the later requests come from: the same tenant and route as the
\* first request, or another tenant on another route
Origins == {<<"t1", "limit">>, <<"t2", "speed">>}

\* the body of the 400 reply of the catch block, and the HTTP statuses
ErrorBody == 0
StatusOk == 200
StatusBadRequest == 400

\* line 117: (req.headers['idempotency-key'] as string) || undefined
\* (undefined is "" here: the one falsy string)
IdemOf(header) == header

\* a handler that treats a request without a key like one with a key
HasKeyAlways(key) == TRUE

\* `if (!key) return undefined` of getIdempotent and `if (idem)` of the
\* handlers: the key is a non-empty string
HasKey(key) == key # ""

\* the store key: `idem:${key}`
RedisKey(key) == <<"idem:", key>>

\* JSON.stringify / JSON.parse of an entry of numbers
JsonStringify(e) == [json |-> <<e.status, e.body, e.createdAt, e.ttlMs>>]
JsonParse(raw) ==
    [status |-> raw.json[1], body |-> raw.json[2], createdAt |-> raw.json[3], ttlMs |-> raw.json[4]]

NoEntry == [status |-> 0, body |-> 0, createdAt |-> 0, ttlMs |-> 0]

\* an expiry test that already drops the entry at the instant the TTL is reached
IdemExpiredAtTtl(e, t) == t - e.createdAt >= e.ttlMs

\* local backend of getIdempotent, line 37: the entry has expired
IdemExpired(e, t) == t - e.createdAt > e.ttlMs

\* the store's native expiry of a key set with PX ttl
RedisAlive(k, t) == k \in DOMAIN iRemote /\ t < iRemote[k].expiresAt

\* getIdempotent on the local map: lines 35-41; <<entry or NoEntry, map after>>
GetLocal(key, t) ==
    IF key \notin DOMAIN iStore THEN <<NoEntry, iStore>>
    ELSE IF IdemExpired(iStore[key], t) THEN <<NoEntry, MapDelete(iStore, key)>>
    ELSE <<iStore[key], iStore>>

\* a read that falls back to the in-process map when the store has no entry
GetRemoteOrLocal(key, t) ==
    IF RedisAlive(RedisKey(key), t) THEN JsonParse(iRemote[RedisKey(key)].raw)
    ELSE IF key \in DOMAIN iStore THEN iStore[key]
    ELSE NoEntry

\* getIdempotent on the shared store: lines 44-46
GetRemote(key, t) ==
    IF RedisAlive(RedisKey(key), t) THEN JsonParse(iRemote[RedisKey(key)].raw) ELSE NoEntry

\* setIdempotent: line 50
NewEntry(status, body, t, ttlMs) ==
    [status |-> status, body |-> body, createdAt |-> t, ttlMs |-> ttlMs]

\* what a direct call did: found/entry are getIdempotent's result, threw is
\* whether the call rejected
NoIdemCall == [op |-> "none", key |-> "", found |-> FALSE, entry |-> NoEntry, threw |-> FALSE]
IdemCall(op, key, found, entry, threw) ==
    [op |-> op, key |-> key, found |-> found, entry |-> entry, threw |-> threw]

\* a request: its position in the handler, its key and tenant, its reply
\* (status, body, fromCache) and, for the observer, the requests that had been
\* answered from upstream when it arrived (after), the time and number of its
\* placeOrder call, the time of its reply and why it failed (cause)
NewRequest == [pc |-> "new", header |-> "", key |-> "", tenant |-> "t1", route |-> "limit",
               after |-> {},
               placedAt |-> 0,
               orderId |-> 0, status |-> 0, body |-> 0, fromCache |-> FALSE,
               doneAt |-> 0, cause |-> ""]

\* a request answered 200 with the order that its own placeOrder call returned
Succeeded(q) == iReqs[q].pc = "done" /\ iReqs[q].status = StatusOk /\ ~iReqs[q].fromCache

Reply(r, status, body, fromCache) ==
    [iReqs EXCEPT ![r].pc = "done", ![r].status = status, ![r].body = body,
                  ![r].fromCache = fromCache, ![r].doneAt = now]

\* the reply of the catch block
ReplyError(r, cause) ==
    [Reply(r, StatusBadRequest, ErrorBody, FALSE) EXCEPT ![r].cause = cause]

\* the handler up to `await getIdempotent(idem)`: lines 110-118; a body that
\* fails LimitOrderBody.parse (or misses its price) is answered 400; requests
\* are numbered in the order in which they arrive
\* a lookup key that would depend on the tenant as well
ScopedKey(header, tenant) ==
    IF header = "" \/ tenant = DefaultTenant THEN header ELSE "k2"

ArriveScoped(route, r, header, tenant, valid) ==
    /\ iReqs[r].pc = "new"
    /\ IF r = 1 THEN TRUE ELSE iReqs[r - 1].pc # "new"
    /\ LET done == {q \in DOMAIN iReqs : Succeeded(q)} IN
         IF valid
         THEN iReqs' = [iReqs EXCEPT ![r].pc = "lookup", ![r].key = ScopedKey(header, tenant),
                                     ![r].tenant = tenant, ![r].route = route,
                                     ![r].header = header, ![r].after = done]
         ELSE iReqs' = [ReplyError(r, "invalid")
                          EXCEPT ![r].key = ScopedKey(header, tenant), ![r].tenant = tenant,
                                 ![r].route = route, ![r].header = header,
                                 ![r].after = done]
    /\ UNCHANGED <<now, iRedisOn, iRedisStatus, iStore, iRemote, iPlacements, iLast, iSets, notIdem>>

ArriveOn(route, r, header, tenant, valid) ==
    /\ iReqs[r].pc = "new"
    /\ IF r = 1 THEN TRUE ELSE iReqs[r - 1].pc # "new"
    /\ LET done == {q \in DOMAIN iReqs : Succeeded(q)} IN
         IF valid
         THEN iReqs' = [iReqs EXCEPT ![r].pc = "lookup", ![r].key = IdemOf(header),
                                     ![r].tenant = tenant, ![r].route = route,
                                     ![r].header = header, ![r].after = done]
         ELSE iReqs' = [ReplyError(r, "invalid")
                          EXCEPT ![r].key = IdemOf(header), ![r].tenant = tenant,
                                 ![r].route = route, ![r].header = header,
                                 ![r].after = done]
    /\ UNCHANGED <<now, iRedisOn, iRedisStatus, iStore, iRemote, iPlacements, iLast, iSets, notIdem>>

\* POST /v1/orders/limit
Arrive(r, header, tenant, valid) == ArriveOn("limit", r, header, tenant, valid)

\* after a lookup that found nothing: placeOrder is called (lines 121-146)
StartPlacing(reqs, r) ==
    [reqs EXCEPT ![r].pc = "placing", ![r].placedAt = now, ![r].orderId = iPlacements + 1]

\* getIdempotent(idem) and what follows it: lines 118-125, local backend
LookupLocal(r) ==
    /\ iReqs[r].pc = "lookup"
    /\ ~iRedisOn \/ ~HasKey(iReqs[r].key)
    /\ IF ~HasKey(iReqs[r].key)
       THEN /\ iReqs' = StartPlacing(iReqs, r)
            /\ iPlacements' = iPlacements + 1
            /\ UNCHANGED iStore
       ELSE LET got == GetLocal(iReqs[r].key, now) IN
              /\ iStore' = got[2]
              /\ IF got[1] # NoEntry
                 THEN /\ iReqs' = Reply(r, got[1].status, got[1].body, TRUE)
                      /\ UNCHANGED iPlacements
                 ELSE /\ iReqs' = StartPlacing(iReqs, r)
                      /\ iPlacements' = iPlacements + 1
    /\ UNCHANGED <<now, iRedisOn, iRedisStatus, iRemote, iLast, iSets, notIdem>>

\* getIdempotent(idem) and what follows it, shared store; `ok` is whether the
\* connect (when one is needed) and the GET succeed
LookupRemote(r, ok) ==
    /\ iReqs[r].pc = "lookup"
    /\ iRedisOn /\ HasKey(iReqs[r].key)
    /\ IF ok
       THEN /\ iRedisStatus' = "ready"
            /\ LET got == GetRemote(iReqs[r].key, now) IN
                 IF got # NoEntry
                 THEN /\ iReqs' = Reply(r, got.status, got.body, TRUE)
                      /\ UNCHANGED iPlacements
                 ELSE /\ iReqs' = StartPlacing(iReqs, r)
                      /\ iPlacements' = iPlacements + 1
       ELSE /\ iRedisStatus' = "end"
            /\ iReqs' = ReplyError(r, "store")
            /\ UNCHANGED iPlacements
    /\ UNCHANGED <<now, iRedisOn, iStore, iRemote, iLast, iSets, notIdem>>

\* a catch block that recorded the error reply under the key
PlaceFailsCaching(r) ==
    /\ iReqs[r].pc = "placing"
    /\ iReqs' = [ReplyError(r, "upstream") EXCEPT ![r].orderId = 0]
    /\ iStore' = IF HasKey(iReqs[r].key)
                  THEN MapSet(iStore, iReqs[r].key,
                              NewEntry(StatusBadRequest, ErrorBody, now, IdemDefaultTtlMs))
                  ELSE iStore
    /\ UNCHANGED <<now, iRedisOn, iRedisStatus, iRemote, iPlacements, iLast, iSets, notIdem>>

\* placeOrder rejects (an API error, a timeout): the catch block, lines 150-153
PlaceFails(r) ==
    /\ iReqs[r].pc = "placing"
    /\ iReqs' = [ReplyError(r, "upstream") EXCEPT ![r].orderId = 0]
    /\ UNCHANGED <<now, iRedisOn, iRedisStatus, iStore, iRemote, iPlacements, iLast, iSets, notIdem>>

\* placeOrder resolves: lines 148-149; on the local backend (or without a
\* key) setIdempotent completes synchronously and the reply is sent; on the
\* shared store the handler is suspended in setIdempotent's awaits
PlaceSucceeds(r) ==
    /\ iReqs[r].pc = "placing"
    /\ IF iRedisOn /\ HasKey(iReqs[r].key)
       THEN /\ iReqs' = [iReqs EXCEPT ![r].pc = "storing"]
            /\ UNCHANGED iStore
       ELSE /\ iStore' = IF HasKey(iReqs[r].key)
                         THEN MapSet(iStore, iReqs[r].key,
                                     NewEntry(StatusOk, iReqs[r].orderId, now, IdemDefaultTtlMs))
                         ELSE iStore
            /\ iReqs' = Reply(r, StatusOk, iReqs[r].orderId, FALSE)
    /\ iSets' = IF ~iRedisOn /\ HasKey(iReqs[r].key)
                THEN MapSet(iSets, iReqs[r].key,
                            NewEntry(StatusOk, iReqs[r].orderId, now, IdemDefaultTtlMs))
                ELSE iSets
    /\ UNCHANGED <<now, iRedisOn, iRedisStatus, iRemote, iPlacements, iLast, notIdem>>

\* setIdempotent on the shared store, lines 56-57, then reply.send(placed);
\* `ok` is whether the connect and the SET succeed (a failure reaches the
\* catch block although the order has been placed)
StoreRemote(r, ok) ==
    /\ iReqs[r].pc = "storing"
    /\ IF ok
       THEN /\ iRedisStatus' = "ready"
            /\ iRemote' = MapSet(iRemote, RedisKey(iReqs[r].key),
                   [raw |-> JsonStringify(NewEntry(StatusOk, iReqs[r].orderId, now, IdemDefaultTtlMs)),
                    expiresAt |-> now + IdemDefaultTtlMs])
            /\ iReqs' = Reply(r, StatusOk, iReqs[r].orderId, FALSE)
       ELSE /\ iRedisStatus' = "end"
            /\ iReqs' = ReplyError(r, "store")
            /\ UNCHANGED iRemote
    /\ iSets' = IF ok
                THEN MapSet(iSets, iReqs[r].key,
                            NewEntry(StatusOk, iReqs[r].orderId, now, IdemDefaultTtlMs))
                ELSE iSets
    /\ UNCHANGED <<now, iRedisOn, iStore, iPlacements, iLast, notIdem>>

\* keys, statuses, bodies and ttlMs arguments of direct calls (an omitted
\* ttlMs is <<>>); setIdempotent is called with a non-empty key, as the routes do
IdemKeys == {"", "k1"}
IdemStatuses == {200}
IdemBodies == {1, 2}
IdemTtlArgs == {<<>>, <<1>>}

\* getIdempotent(key) called directly: lines 31-47; `ok` is whether the
\* store's connect and GET succeed
GetIdempotent(key, ok) ==
    /\ IF ~HasKey(key)
       THEN /\ iLast' = IdemCall("get", key, FALSE, NoEntry, FALSE)
            /\ UNCHANGED <<iStore, iRedisStatus>>
       ELSE IF ~iRedisOn
       THEN LET got == GetLocal(key, now) IN
              /\ iStore' = got[2]
              /\ iLast' = IdemCall("get", key, got[1] # NoEntry, got[1], FALSE)
              /\ UNCHANGED iRedisStatus
       ELSE IF ok
       THEN LET got == GetRemote(key, now) IN
              /\ iRedisStatus' = "ready"
              /\ iLast' = IdemCall("get", key, got # NoEntry, got, FALSE)
              /\ UNCHANGED iStore
       ELSE /\ iRedisStatus' = "end"
            /\ iLast' = IdemCall("get", key, FALSE, NoEntry, TRUE)
            /\ UNCHANGED iStore
    /\ UNCHANGED <<now, iRedisOn, iRemote, iReqs, iPlacements, iSets, notIdem>>

\* setIdempotent(key, status, body, ttlMs) called directly: lines 49-58
SetIdempotent(key, status, body, ttl, ok) ==
    LET entry == NewEntry(status, body, now, OrDefault(ttl, IdemDefaultTtlMs)) IN
      /\ IF ~iRedisOn
         THEN /\ iStore' = MapSet(iStore, key, entry)
              /\ iSets' = MapSet(iSets, key, entry)
              /\ iLast' = IdemCall("set", key, FALSE, entry, FALSE)
              /\ UNCHANGED <<iRemote, iRedisStatus>>
         ELSE IF ok
         THEN /\ iRedisStatus' = "ready"
              /\ iRemote' = MapSet(iRemote, RedisKey(key),
                     [raw |-> JsonStringify(entry), expiresAt |-> now + entry.ttlMs])
              /\ iSets' = MapSet(iSets, key, entry)
              /\ iLast' = IdemCall("set", key, FALSE, entry, FALSE)
              /\ UNCHANGED iStore
         ELSE /\ iRedisStatus' = "end"
              /\ iLast' = IdemCall("set", key, FALSE, entry, TRUE)
              /\ UNCHANGED <<iStore, iRemote, iSets>>
      /\ UNCHANGED <<now, iRedisOn, iReqs, iPlacements, notIdem>>

\* REDIS_URL is set while the process runs: from the next call on getRedis()
\* creates and returns the client (redis.ts lines 6-13)
RedisConfigured ==
    /\ ~iRedisOn
    /\ iRedisOn' = TRUE
    /\ UNCHANGED <<now, iRedisStatus, iStore, iRemote, iReqs, iPlacements, iLast, iSets, notIdem>>

\* the clock advances: by 1 ms, or by the TTL
IdemTick ==
    /\ \E d \in {1, IdemDefaultTtlMs} :
         /\ now' = now + d
         /\ now' <= Epoch + IdemDefaultTtlMs + IdemHorizon
         /\ d = 1 => (now' - Epoch) % IdemDefaultTtlMs <= IdemHorizon
    /\ UNCHANGED <<idemVars, notIdem>>

IdemIdle ==
    /\ iRedisOn = FALSE
    /\ iRedisStatus = "wait"
    /\ iStore = <<>>
    /\ iRemote = <<>>
    /\ iReqs = [r \in Requests |-> NewRequest]
    /\ iPlacements = 0
    /\ iLast = NoIdemCall
    /\ iSets = <<>>

\* the service starts: REDIS_URL is set or not (redis.ts lines 5-14); reqs
\* are the requests that will be sent to it
IdemInit(reqs) ==
    /\ now = Epoch
    /\ iRedisOn \in BOOLEAN
    /\ iRedisStatus = "wait"
    /\ iStore = <<>>
    /\ iRemote = <<>>
    /\ iReqs = [r \in reqs |-> NewRequest]
    /\ iPlacements = 0
    /\ iLast = NoIdemCall
    /\ iSets = <<>>

(***************************************************************************)
(* Service gate on the shared store (service/lib/rateLimiter.ts)           *)
(***************************************************************************)
NumSvcCallers == 2
SvcWindows == 3
SvcHorizon == 1

WindowMs == 1000
WindowExpireMs == 2000
GetLimit == 6
PostLimit == 1
WsLimit == 1

SvcCallers == 1..NumSvcCallers
SvcClasses == {"get", "post", "ws"}

\* the limit each exported gate passes to waitGate
LimitOf(class) == CASE class = "get" -> GetLimit
                    [] class = "post" -> PostLimit
                    [] class = "ws" -> WsLimit

\* Math.floor(now / 1000)
WindowOf(t) == t \div WindowMs

\* 1000 - (Date.now() % 1000)
UntilNextSecond(t) == WindowMs - (t % WindowMs)

NoSvcCall == [pc |-> "idle", sec |-> 0, wake |-> 0, on |-> 0]

\* a key of the store is there until its expiry time, if it has one
WindowAlive(sec, t) ==
    /\ sec \in DOMAIN wKeys
    /\ (wKeys[sec].expiresAt = <<>> \/ t < wKeys[sec].expiresAt[1])

\* INCR: the counter after the increment, starting from 0 when the key is absent
Incr(sec, t) == IF WindowAlive(sec, t) THEN wKeys[sec].n + 1 ELSE 1

\* `if (n <= limit) return true; return false;` and what waitGate does with it:
\* return, or sleep until the next second boundary
Decide(c, sec, n) ==
    IF n <= LimitOf(wClass)
    THEN /\ wCalls' = [wCalls EXCEPT ![c] = [@ EXCEPT !.pc = "admitted", !.on = sec]]
         /\ wAdmitted' = (IF sec \in DOMAIN wAdmitted
                          THEN [wAdmitted EXCEPT ![sec] = @ + 1]
                          ELSE [k \in DOMAIN wAdmitted \cup {sec} |->
                                  IF k = sec THEN 1 ELSE wAdmitted[k]])
    ELSE /\ wCalls' = [wCalls EXCEPT ![c] = [@ EXCEPT !.pc = "sleeping",
                                                      !.wake = now + UntilNextSecond(now)]]
         /\ UNCHANGED wAdmitted

\* waitGate is called: the store is configured, takeWindow awaits
\* ensureRedisConnected()
WaitGateCall(c) ==
    /\ wCalls[c].pc = "idle"
    /\ wCalls' = [wCalls EXCEPT ![c] = [@ EXCEPT !.pc = "connecting"]]
    /\ UNCHANGED <<now, wClass, wKeys, wAdmitted, notSvc>>

\* takeWindow reads the clock, names the window key and sends INCR
TakeWindowRead(c) ==
    /\ wCalls[c].pc = "connecting"
    /\ wCalls' = [wCalls EXCEPT ![c] = [@ EXCEPT !.pc = "incr", !.sec = WindowOf(now)]]
    /\ UNCHANGED <<now, wClass, wKeys, wAdmitted, notSvc>>

\* the store executes INCR and takeWindow resumes with n: it sends EXPIRE
\* when n === 1, otherwise it compares n with the limit
TakeWindowIncr(c) ==
    /\ wCalls[c].pc = "incr"
    /\ LET sec == wCalls[c].sec
           n == Incr(sec, now)
           exp == IF WindowAlive(sec, now) THEN wKeys[sec].expiresAt ELSE <<>>
       IN /\ wKeys' = [k \in DOMAIN wKeys \cup {sec} |->
                          IF k = sec THEN [n |-> n, expiresAt |-> exp] ELSE wKeys[k]]
          /\ IF n = 1
             THEN /\ wCalls' = [wCalls EXCEPT ![c] = [@ EXCEPT !.pc = "expire"]]
                  /\ UNCHANGED wAdmitted
             ELSE Decide(c, sec, n)
    /\ UNCHANGED <<now, wClass, notSvc>>

\* the store executes EXPIRE rk 2 and takeWindow resumes after it
TakeWindowExpire(c) ==
    /\ wCalls[c].pc = "expire"
    /\ LET sec == wCalls[c].sec
       IN /\ wKeys' = (IF WindowAlive(sec, now)
                       THEN [wKeys EXCEPT ![sec] = [@ EXCEPT !.expiresAt = <<now + WindowExpireMs>>]]
                       ELSE wKeys)
          /\ Decide(c, sec, 1)
    /\ UNCHANGED <<now, wClass, notSvc>>

\* an awaited store call rejects (ensureRedisConnected, INCR or EXPIRE):
\* neither takeWindow nor waitGate catches it, the gate rejects
WaitGateThrows(c) ==
    /\ wCalls[c].pc \in {"connecting", "incr", "expire"}
    /\ wCalls' = [wCalls EXCEPT ![c] = [@ EXCEPT !.pc = "rejected"]]
    /\ UNCHANGED <<now, wClass, wKeys, wAdmitted, notSvc>>

\* the sleep of waitGate ends and the loop calls takeWindow again
WaitGateWake(c) ==
    /\ wCalls[c].pc = "sleeping"
    /\ now >= wCalls[c].wake
    /\ wCalls' = [wCalls EXCEPT ![c] = [@ EXCEPT !.pc = "connecting"]]
    /\ UNCHANGED <<now, wClass, wKeys, wAdmitted, notSvc>>

\* time passes: to the next second boundary, or one millisecond near one
SvcTick ==
    /\ \E d \in {1, UntilNextSecond(now)} :
         /\ now' = now + d
         /\ now' <= Epoch + SvcWindows * WindowMs + SvcHorizon
         /\ d = 1 => (now' - Epoch) % WindowMs <= SvcHorizon
    /\ UNCHANGED <<svcVars, notSvc>>

SvcIdle ==
    /\ wClass = "get"
    /\ wKeys = <<>>
    /\ wCalls = [c \in SvcCallers |-> NoSvcCall]
    /\ wAdmitted = <<>>

SvcInit ==
    /\ now = Epoch
    /\ wClass \in SvcClasses
    /\ wKeys = <<>>
    /\ wCalls = [c \in SvcCallers |-> NoSvcCall]
    /\ wAdmitted = <<>>

(***************************************************************************)
(* Public REST client (src/rest-public.ts)                                 *)
(***************************************************************************)
NumPubCalls == 2
PubHorizon == 1

PubCallIds == 1..NumPubCalls
PubMethods == {"ticker", "orderbook", "trades", "klines"}
PubSymbols == {"USD_JPY", "EUR_JPY"}
\* what the transport resolves with on a 2xx response: the parsed body, or
\* undefined when the body is not JSON (parseJson, lines 11-15)
PubBodies == {"r1", Undefined}
PubTtlOptions == {<<>>, <<2>>}

\* createCacheKey(namespace, [symbol]): `${namespace}:${symbol}`
CreateCacheKey(method, symbol) == <<method, symbol>>

\* `if (cached) return cached;`: a response object is truthy, undefined is not
JsTruthy(v) == v # Undefined

\* the methods whose body reads and writes this.cache
ReadsCache(method) == method \in {"ticker", "orderbook"}

\* this.cache.get(key): the value of an unexpired entry, undefined otherwise
PubCacheGet(key) ==
    IF key \in DOMAIN pCache /\ ~Expired(pCache[key]) THEN pCache[key].value ELSE Undefined

\* what get() leaves in the cache: an expired entry of the key is deleted
PubCacheAfterGet(key) ==
    IF key \in DOMAIN pCache /\ Expired(pCache[key]) THEN MapDelete(pCache, key) ELSE pCache

NoPubCall == [pc |-> "idle", method |-> "ticker", symbol |-> "USD_JPY", result |-> Undefined,
              fetched |-> FALSE, prior |-> <<>>, stale |-> FALSE]

\* a method is called: a cached method answers from the cache when get()
\* returns a truthy value, every other call goes to _get
PubCall(c, method, symbol) ==
    /\ pCalls[c].pc = "idle"
    /\ IF c = 1 THEN TRUE ELSE pCalls[c - 1].pc # "idle"
    /\ LET key == CreateCacheKey(method, symbol)
           cached == IF ReadsCache(method) THEN PubCacheGet(key) ELSE Undefined
           seen == key \in DOMAIN pRet
           call == [NoPubCall EXCEPT !.method = method, !.symbol = symbol,
                      !.prior = IF seen /\ now < pRet[key].at + pTtl
                                THEN <<pRet[key].value>> ELSE <<>>,
                      !.stale = seen /\ now >= pRet[key].at + pTtl]
       IN /\ pCache' = (IF ReadsCache(method) THEN PubCacheAfterGet(key) ELSE pCache)
          /\ IF ReadsCache(method) /\ JsTruthy(cached)
             THEN /\ pCalls' = [pCalls EXCEPT ![c] = [call EXCEPT !.pc = "done", !.result = cached]]
                  /\ UNCHANGED pFetches
             ELSE /\ pCalls' = [pCalls EXCEPT ![c] = [call EXCEPT !.pc = "fetching",
                                                                  !.fetched = TRUE]]
                  /\ pFetches' = pFetches + 1
    /\ UNCHANGED <<now, pTtl, pRet, notPub>>

\* _get resolves with the body of a 2xx response: a cached method stores it
\* with the default ttl, and the call returns it
PubResolves(c, body) ==
    /\ pCalls[c].pc = "fetching"
    /\ LET key == CreateCacheKey(pCalls[c].method, pCalls[c].symbol)
       IN /\ pCache' = (IF ReadsCache(pCalls[c].method)
                        THEN MapSet(pCache, key, [value |-> body, expiresAt |-> now + pTtl])
                        ELSE pCache)
          /\ pRet' = MapSet(pRet, key, [at |-> now, value |-> body])
    /\ pCalls' = [pCalls EXCEPT ![c] = [@ EXCEPT !.pc = "done", !.result = body]]
    /\ UNCHANGED <<now, pTtl, pFetches, notPub>>

\* _get throws (non-2xx response, network error, timeout): the call rejects
PubRejects(c) ==
    /\ pCalls[c].pc = "fetching"
    /\ pCalls' = [pCalls EXCEPT ![c] = [@ EXCEPT !.pc = "failed"]]
    /\ UNCHANGED <<now, pTtl, pCache, pFetches, pRet, notPub>>

PubTick ==
    /\ \E d \in {1, pTtl} :
         /\ now' = now + d
         /\ now' <= Epoch + pTtl + PubHorizon
         /\ d = 1 => (now' - Epoch) % pTtl <= PubHorizon
    /\ UNCHANGED <<pubVars, notPub>>

PubIdle ==
    /\ pTtl = DefaultTtlMs
    /\ pCache = <<>>
    /\ pCalls = [c \in PubCallIds |-> NoPubCall]
    /\ pFetches = 0
    /\ pRet = <<>>

\* new FxPublicRestClient(baseUrl, cacheTtl): lines 30-32
PubInit ==
    /\ now = Epoch
    /\ \E ttl \in PubTtlOptions : pTtl = OrDefault(ttl, DefaultTtlMs)
    /\ pCache = <<>>
    /\ pCalls = [c \in PubCallIds |-> NoPubCall]
    /\ pFetches = 0
    /\ pRet = <<>>

(***************************************************************************)
(* WebSocket clients (src/ws-private.ts, src/ws-public.ts)                 *)
(***************************************************************************)
MaxWsCalls == 3

\* FxPrivateWsClient and FxPublicWsClient have the same connect() and close()
WsClients == {"private", "public"}

\* the socket of a client: "none" before connect() creates it, then its
\* readyState; "aborting" is CLOSING after close() on a CONNECTING socket,
\* which ends with an 'error' event
NewWsClient == [ws |-> FALSE, sock |-> "none", pingTimer |-> FALSE, closed |-> FALSE,
                promise |-> "none", timeout |-> FALSE, onOpen |-> FALSE, onError |-> FALSE,
                calls |-> 0, sub |-> "none", wake |-> 0]

NoWsCall == [client |-> "private", op |-> "none", outcome |-> "none"]
WsCall(k, op, outcome) == [client |-> k, op |-> op, outcome |-> outcome]

\* `if (this.closed) throw ...` at the head of connect()
AlreadyClosedNever(closed) == FALSE

AlreadyClosed(closed) == closed

\* WebSocket.close(): OPEN starts the closing handshake, CONNECTING aborts
\* the handshake, CLOSING and CLOSED are left alone
SocketClose(sock) == CASE sock = "open" -> "closing"
                       [] sock = "connecting" -> "aborting"
                       [] OTHER -> sock

\* connect(): lines 83-124
WsConnect(k) ==
    /\ xClients[k].calls < MaxWsCalls
    /\ LET x == [xClients[k] EXCEPT !.calls = @ + 1]
       IN IF AlreadyClosed(x.closed)
          THEN /\ xClients' = [xClients EXCEPT ![k] = x]
               /\ xLast' = WsCall(k, "connect", "closed")
          ELSE IF x.ws
          THEN /\ xClients' = [xClients EXCEPT ![k] = x]
               /\ xLast' = WsCall(k, "connect", "connected")
          ELSE /\ xClients' = [xClients EXCEPT ![k] =
                                 [x EXCEPT !.ws = TRUE, !.sock = "connecting",
                                           !.promise = "pending", !.timeout = TRUE,
                                           !.onOpen = TRUE, !.onError = TRUE]]
               /\ xLast' = WsCall(k, "connect", "pending")
    /\ UNCHANGED <<now, xGateLast, notWs>>

\* cleanup(): this.ws?.removeListener(...) for both listeners
Cleanup(x) == IF x.ws THEN [x EXCEPT !.onOpen = FALSE, !.onError = FALSE] ELSE x

\* the socket opens: the 'open' event runs onOpen (lines 96-105)
WsSocketOpens(k) ==
    /\ xClients[k].sock = "connecting"
    /\ LET x == [xClients[k] EXCEPT !.sock = "open"]
       IN xClients' = [xClients EXCEPT ![k] =
            IF x.onOpen
            THEN [Cleanup([x EXCEPT !.onOpen = FALSE, !.timeout = FALSE])
                    EXCEPT !.pingTimer = TRUE,
                           !.promise = IF @ = "pending" THEN "resolved" ELSE @]
            ELSE x]
    /\ UNCHANGED <<now, xLast, xGateLast, notWs>>

\* the 'error' event runs onError (lines 107-112)
OnErrorEvent(x) ==
    IF x.onError
    THEN [Cleanup([x EXCEPT !.onError = FALSE, !.timeout = FALSE])
            EXCEPT !.promise = IF @ = "pending" THEN "rejected" ELSE @]
    ELSE x

\* the connection attempt fails: 'error', then the socket is CLOSED
WsSocketErrors(k) ==
    /\ xClients[k].sock = "connecting"
    /\ xClients' = [xClients EXCEPT ![k] = OnErrorEvent([@ EXCEPT !.sock = "closed"])]
    /\ UNCHANGED <<now, xLast, xGateLast, notWs>>

\* a handshake aborted by close() ends: 'error', then the socket is CLOSED
WsSocketAborted(k) ==
    /\ xClients[k].sock = "aborting"
    /\ xClients' = [xClients EXCEPT ![k] = OnErrorEvent([@ EXCEPT !.sock = "closed"])]
    /\ UNCHANGED <<now, xLast, xGateLast, notWs>>

\* the closing handshake ends, or the server closes an open socket
WsSocketClosed(k) ==
    /\ xClients[k].sock \in {"open", "closing"}
    /\ xClients' = [xClients EXCEPT ![k] = [@ EXCEPT !.sock = "closed"]]
    /\ UNCHANGED <<now, xLast, xGateLast, notWs>>

\* the connect timeout fires (lines 91-94)
WsTimeoutFires(k) ==
    /\ xClients[k].timeout
    /\ xClients' = [xClients EXCEPT ![k] =
         [@ EXCEPT !.timeout = FALSE,
                   !.sock = IF xClients[k].ws THEN SocketClose(@) ELSE @,
                   !.promise = IF @ = "pending" THEN "rejected" ELSE @]]
    /\ UNCHANGED <<now, xLast, xGateLast, notWs>>

\* close(): lines 180-192
WsClose(k) ==
    /\ xClients[k].calls < MaxWsCalls
    /\ xClients' = [xClients EXCEPT ![k] =
         [@ EXCEPT !.calls = @ + 1, !.closed = TRUE, !.pingTimer = FALSE,
                   !.sock = IF xClients[k].ws THEN SocketClose(@) ELSE @,
                   !.ws = FALSE]]
    /\ xLast' = WsCall(k, "close", "done")
    /\ UNCHANGED <<now, xGateLast, notWs>>

\* export const wsGate = new FixedGate(1)
WsGateOps == 1

WsSubOps == {"subscribe", "unsubscribe"}

\* this.ws.send(...) after the gate: with this.ws null the property access
\* throws a TypeError; otherwise send() is called on the socket, whatever its
\* readyState is
SendOutcome(x) ==
    IF ~x.ws THEN "typeError"
    ELSE CASE x.sock = "open" -> "sent"
           [] x.sock = "closing" -> "sentOnClosing"
           [] OTHER -> "sentOnClosed"

\* subscribe() / unsubscribe(), from the call to the suspension on the gate's
\* timer, or to the end when the gate does not suspend
WsSubscribe(k, op) ==
    /\ xClients[k].calls < MaxWsCalls
    /\ xClients[k].sub = "none"
    /\ LET x == [xClients[k] EXCEPT !.calls = @ + 1]
           diff == now - xGateLast
       IN IF ~x.ws \/ x.sock # "open"
          THEN /\ xClients' = [xClients EXCEPT ![k] = x]
               /\ xLast' = WsCall(k, op, "notConnected")
               /\ UNCHANGED xGateLast
          ELSE IF diff < IntervalMs(WsGateOps)
          THEN /\ xClients' = [xClients EXCEPT ![k] =
                                 [x EXCEPT !.sub = op,
                                           !.wake = now + (IntervalMs(WsGateOps) - diff)]]
               /\ xLast' = WsCall(k, op, "waiting")
               /\ UNCHANGED xGateLast
          ELSE /\ xGateLast' = now
               /\ xClients' = [xClients EXCEPT ![k] = x]
               /\ xLast' = WsCall(k, op, SendOutcome(x))
    /\ UNCHANGED <<now, notWs>>

\* the gate's timer fires: wait() returns and the call goes on to send
WsGateWake(k) ==
    /\ xClients[k].sub \in WsSubOps
    /\ now >= xClients[k].wake
    /\ xGateLast' = now
    /\ xClients' = [xClients EXCEPT ![k] = [@ EXCEPT !.sub = "none", !.wake = 0]]
    /\ xLast' = WsCall(k, xClients[k].sub, SendOutcome(xClients[k]))
    /\ UNCHANGED <<now, notWs>>

\* time passes up to the next timer of the gate
WsTick ==
    /\ \E k \in WsClients :
         /\ xClients[k].sub \in WsSubOps
         /\ xClients[k].wake > now
         /\ now' = xClients[k].wake
    /\ UNCHANGED <<wsVars, notWs>>

WsIdle ==
    /\ xClients = [k \in WsClients |-> NewWsClient]
    /\ xLast = NoWsCall
    /\ xGateLast = 0

WsInit ==
    /\ now = Epoch
    /\ xClients = [k \in WsClients |-> NewWsClient]
    /\ xLast = NoWsCall
    /\ xGateLast = 0

(***************************************************************************)
(* Private REST client (src/rest.ts) and the gated routes of the service   *)
(***************************************************************************)
NumRestCalls == 2
\* the clock moves by 1 ms only this long after Epoch; later it moves from
\* one timer to the next
RestHorizon == 1

RestCallIds == 1..NumRestCalls
RestVerbs == {"get", "post"}

\* export const getGate = new FixedGate(6); postGate = new FixedGate(1)
GetGateOps == 6
PostGateOps == 1
GateOpsOf(verb) == IF verb = "get" THEN GetGateOps ELSE PostGateOps
GateIntervalOf(verb) == IntervalMs(GateOpsOf(verb))

\* a response of the upstream API: its HTTP status and json?.status, which is
\* missing when the body is not JSON
Responses == {[http |-> 200, json |-> <<0>>], [http |-> 200, json |-> <<1>>],
              [http |-> 200, json |-> <<>>], [http |-> 400, json |-> <<1>>],
              [http |-> 500, json |-> <<>>]}

ResOk(res) == res.http \in 200..299

\* const isError = !res.ok || json?.status !== 0
ResIsError(res) == ~ResOk(res) \/ res.json # <<0>>

NoRestCall == [pc |-> "idle", via |-> "client", verb |-> "get", arrivedAt |-> 0, wake |-> 0,
               releases |-> 0, sentAt |-> 0, recorded |-> 0, audited |-> 0]

NoMetrics == [v \in RestVerbs |-> [requestCount |-> 0, errorCount |-> 0]]

\* MetricsCollector.recordRequest: the endpoint's requestCount grows by one,
\* its errorCount when `error || statusCode >= 400`
RecordRequest(m, verb, statusCode, error) ==
    [m EXCEPT ![verb] = [requestCount |-> @.requestCount + 1,
                         errorCount |-> @.errorCount
                                        + (IF error \/ statusCode >= 400 THEN 1 ELSE 0)]]

\* getMetrics().totalRequests
TotalRequests == qMetrics["get"].requestCount + qMetrics["post"].requestCount

\* FixedGate.wait() returns: this.last = Date.now(), and the caller goes on;
\* a caller that goes on to fetch() sends its request now
Released(q, nextPc) ==
    [q EXCEPT !.pc = nextPc, !.wake = 0, !.releases = @ + 1,
              !.sentAt = IF nextPc = "fetching" THEN now ELSE @]

\* FixedGate.wait() on the gate of the request's verb, from the call to its
\* suspension on the timer or to its return
GateWait(c, q, sleepPc, nextPc) ==
    LET diff == now - qLast[q.verb] IN
      IF diff < GateIntervalOf(q.verb)
      THEN /\ qCalls' = [qCalls EXCEPT ![c] =
                           [q EXCEPT !.pc = sleepPc,
                                     !.wake = now + (GateIntervalOf(q.verb) - diff)]]
           /\ UNCHANGED qLast
      ELSE /\ qLast' = [qLast EXCEPT ![q.verb] = now]
           /\ qCalls' = [qCalls EXCEPT ![c] = Released(q, nextPc)]

\* _get / _post called on the client: `await getGate.wait()` / `await
\* postGate.wait()`, then the request is signed and fetch() is called
RestCall(c, verb) ==
    /\ qCalls[c].pc = "idle"
    /\ GateWait(c, [NoRestCall EXCEPT !.via = "client", !.verb = verb, !.arrivedAt = now],
                "gate", "fetching")
    /\ UNCHANGED <<now, qMetrics, notRest>>

\* a request on a gated route of the service with no shared store: the
\* preHandler gmoGetGate / gmoPostGate runs waitGate, whose getRedis() is
\* undefined, so it returns fallback(), the wait() of the in-process gate
RouteRequest(c, verb) ==
    /\ qCalls[c].pc = "idle"
    /\ GateWait(c, [NoRestCall EXCEPT !.via = "route", !.verb = verb, !.arrivedAt = now],
                "preHandler", "handler")
    /\ UNCHANGED <<now, qMetrics, notRest>>

\* the route's handler calls the client (fx.placeOrder -> _post), which
\* awaits the wait() of the same gate object
RouteHandler(c) ==
    /\ qCalls[c].pc = "handler"
    /\ GateWait(c, qCalls[c], "gate", "fetching")
    /\ UNCHANGED <<now, qMetrics, notRest>>

\* the timer of a suspended wait() fires
GateWake(c) ==
    /\ qCalls[c].pc \in {"preHandler", "gate"}
    /\ now >= qCalls[c].wake
    /\ qLast' = [qLast EXCEPT ![qCalls[c].verb] = now]
    /\ qCalls' = [qCalls EXCEPT ![c] =
                    Released(@, IF @.pc = "gate" THEN "fetching" ELSE "handler")]
    /\ UNCHANGED <<now, qMetrics, notRest>>

\* fetch() and parseJson() resolve: the try block records the response and,
\* for an error response, throws inside the try, so that the catch block of
\* the same function records the thrown error as well
FetchResolves(c, res) ==
    /\ qCalls[c].pc = "fetching"
    /\ LET verb == qCalls[c].verb
           tried == RecordRequest(qMetrics, verb, res.http, ResIsError(res))
       IN IF ResIsError(res)
          THEN /\ qMetrics' = RecordRequest(tried, verb, 0, TRUE)
               /\ qCalls' = [qCalls EXCEPT ![c].pc = "failed", ![c].recorded = @ + 2,
                                           ![c].audited = @ + 2]
          ELSE /\ qMetrics' = tried
               /\ qCalls' = [qCalls EXCEPT ![c].pc = "done", ![c].recorded = @ + 1,
                                           ![c].audited = @ + 1]
    /\ UNCHANGED <<now, qLast, notRest>>

\* fetch() rejects (network failure, or the abort after FETCH_TIMEOUT): the
\* catch block records the failure with status 0 and rethrows
FetchRejects(c) ==
    /\ qCalls[c].pc = "fetching"
    /\ qMetrics' = RecordRequest(qMetrics, qCalls[c].verb, 0, TRUE)
    /\ qCalls' = [qCalls EXCEPT ![c].pc = "failed", ![c].recorded = @ + 1,
                                ![c].audited = @ + 1]
    /\ UNCHANGED <<now, qLast, notRest>>

\* time passes: 1 ms shortly after Epoch, or up to the next timer
RestTick ==
    /\ \E d \in {1} \cup {qCalls[c].wake - now : c \in RestCallIds} :
         /\ d > 0
         /\ d = 1 => now + 1 <= Epoch + RestHorizon
         /\ now' = now + d
    /\ UNCHANGED <<restVars, notRest>>

RestIdle ==
    /\ qLast = [v \in RestVerbs |-> 0]
    /\ qCalls = [c \in RestCallIds |-> NoRestCall]
    /\ qMetrics = NoMetrics

RestInit ==
    /\ now = Epoch
    /\ qLast = [v \in RestVerbs |-> 0]
    /\ qCalls = [c \in RestCallIds |-> NoRestCall]
    /\ qMetrics = NoMetrics

(***************************************************************************)
(* retryWithCircuitBreaker (src/retry.ts)                                  *)
(***************************************************************************)
DigitChars == <<"0", "1", "2", "3", "4", "5", "6", "7", "8", "9">>

\* the decimal text of a natural number, as a template literal writes it
RECURSIVE Digits(_)
Digits(n) ==
    IF n < 10 THEN <<DigitChars[n + 1]>>
    ELSE Digits(n \div 10) \o <<DigitChars[(n % 10) + 1]>>

MsgOpenPrefix == <<"C", "i", "r", "c", "u", "i", "t", "B", "r", "e", "a", "k", "e", "r", " ",
                   "i", "s", " ", "O", "P", "E", "N", ".", " ",
                   "R", "e", "t", "r", "y", " ", "a", "f", "t", "e", "r", " ">>

\* `CircuitBreaker is OPEN. Retry after ${this.nextAttemptTime - now}ms`
OpenMessage(remaining) == MsgOpenPrefix \o Digits(remaining) \o <<"m", "s">>

\* the Error execute() throws while the breaker is open
OpenError(remaining) == ErrorObject(6, OpenMessage(remaining))

\* cooldowns left on a breaker that is OPEN when the retry sequence starts
Remainings == {1, 499, 500}

\* the breaker's wrapped operation rejects with one of these
FnErrors == {ErrorObject(1, MsgTimeout), ErrorObject(2, MsgErr201)}

\* retryWithBackoff(() => breaker.execute(), retryOptions): the sequence uses
\* the first slot of the breaker
CbSlot == 1

notRetryBrk == <<gateVars, cacheVars, idemVars, svcVars, pubVars, wsVars, restVars, sseVars>>

\* an iteration whose breaker.execute() throws the breaker-open error, which
\* the catch block of the loop receives
CbExecuteThrows ==
    /\ Rejects(bState, now, bNext)
    /\ ExecuteEntry(CbSlot)
    /\ LoopCatch(OpenError(bNext[1] - now))
    /\ UNCHANGED <<now, notRetryBrk>>

\* an iteration whose breaker.execute() invokes the wrapped operation
CbExecuteInvokes ==
    /\ rPc = "calling"
    /\ LoopContinues(rAttempt, rOpts.maxRetries)
    /\ ~Rejects(bState, now, bNext)
    /\ ExecuteEntry(CbSlot)
    /\ UNCHANGED <<now, retryVars, notRetryBrk>>

\* the wrapped operation resolves: execute() returns, and so does the loop
CbFnResolves ==
    /\ ExecuteSuccess(CbSlot)
    /\ LoopReturn
    /\ UNCHANGED <<now, notRetryBrk>>

\* the wrapped operation rejects: execute() rethrows to the loop's catch block
CbFnRejects(error) ==
    /\ ExecuteFailure(CbSlot)
    /\ LoopCatch(error)
    /\ UNCHANGED <<now, notRetryBrk>>

\* a retry sequence with the default predicate on a breaker that is new, or
\* that earlier calls have left OPEN with some cooldown remaining
CbInit ==
    /\ now = Epoch
    /\ \E o \in RetryOptionChoices :
         o.shouldRetry = "default" /\ rOpts = EffectiveOptions(o)
    /\ rPc = "calling"
    /\ rAttempt = 0
    /\ rLastError = NoValue
    /\ rInvocations = 0
    /\ rFailures = 0
    /\ rSleeps = 0
    /\ rDelay = 0
    /\ rThrown = NoValue
    /\ rRaised = NoValue
    /\ bOpts \in {BreakerDefaults} \cup {o \in BreakerOptionChoices : o.timeout # <<>>}
    /\ \/ bState = "CLOSED" /\ bFailureCount = 0 /\ bNext = <<0>>
       \/ /\ bState = "OPEN"
          /\ bFailureCount = bOpts.failureThreshold[1]
          /\ \E r \in Remainings : r <= bOpts.timeout[1] /\ bNext = <<now + r>>
    /\ bSuccessCount = 0
    /\ bCalls = [s \in ExecSlots |-> IdleCall]
    /\ bExecs = 0
    /\ bLast = NoExec

(***************************************************************************)
(* SSE bridge GET /v1/stream (service/routes/stream.ts), from the point     *)
(* where the stream is established: the first client is connected and      *)
(* subscribed and both close handlers are registered                        *)
(***************************************************************************)
\* for (const ms of [500, 1000, 2000, 5000])
ReconnectDelays == <<500, 1000, 2000, 5000>>

\* the first client and one client per iteration of the loop
Upstreams == 1..(1 + Len(ReconnectDelays))

\* events written by the model's message and token handlers
MaxWrites == 2

NoUpstream == [sock |-> "none", closeCalled |-> FALSE, onClose |-> FALSE, onMessage |-> FALSE]
IdleLoop == [pc |-> "idle", attempt |-> 0, client |-> 0, wake |-> 0]

\* send(event, data): lines 60-64
Send(event) ==
    IF eClosed
    THEN UNCHANGED <<eWritten, eLastEvent>>
    ELSE eWritten' = eWritten + 1 /\ eLastEvent' = event

\* one iteration of onClose's loop, up to `await ws2.connect()`: lines 131-134
Iteration(n, clients) ==
    IF eClosed
    THEN eLoop' = IdleLoop /\ eClients' = clients
    ELSE LET c == CHOOSE i \in Upstreams : clients[i].sock = "none" /\
                     \A j \in Upstreams : clients[j].sock = "none" => i <= j
         IN /\ eLoop' = [pc |-> "connecting", attempt |-> n, client |-> c, wake |-> 0]
            /\ eClients' = [clients EXCEPT ![c].sock = "connecting"]

\* the socket of an upstream client is closed by the server or the network;
\* its 'close' event runs the listeners registered with ws.onClose: lines
\* 127-131
UpstreamCloses(i) ==
    /\ eClients[i].sock = "open"
    /\ LET clients == [eClients EXCEPT ![i].sock = "closed"] IN
         IF eClients[i].onClose /\ ~(eClosed \/ eReconnecting)
         THEN /\ eReconnecting' = TRUE
              /\ Iteration(1, clients)
         ELSE /\ eClients' = clients
              /\ UNCHANGED <<eReconnecting, eLoop>>
    /\ UNCHANGED <<now, eClosed, eCurrent, eExtend, eWritten, eLastEvent, notSse>>

\* ws2.connect() resolves; ws2.onMessage(...) and the first subscribe(): lines
\* 134-136
ReconnectConnects ==
    /\ eLoop.pc = "connecting"
    /\ eClients[eLoop.client].sock = "connecting"
    /\ eClients' = [eClients EXCEPT ![eLoop.client].sock = "open",
                                    ![eLoop.client].onMessage = TRUE]
    /\ eLoop' = [eLoop EXCEPT !.pc = "subscribing"]
    /\ UNCHANGED <<now, eClosed, eReconnecting, eCurrent, eExtend, eWritten, eLastEvent, notSse>>

\* all subscribe() calls of the iteration resolved: lines 136-138
ReconnectSubscribes ==
    /\ eLoop.pc = "subscribing"
    /\ eClients[eLoop.client].sock = "open"
    /\ eReconnecting' = FALSE
    /\ eCurrent' = eLoop.client
    /\ eLoop' = IdleLoop
    /\ UNCHANGED <<now, eClosed, eClients, eExtend, eWritten, eLastEvent, notSse>>

\* ws2.connect() or a subscribe() rejects: the catch block sleeps, lines 139-141
ReconnectFails ==
    /\ eLoop.pc \in {"connecting", "subscribing"}
    /\ eClients' = [eClients EXCEPT ![eLoop.client].sock =
                      IF @ = "connecting" THEN "closed" ELSE @]
    /\ eLoop' = [eLoop EXCEPT !.pc = "sleeping",
                              !.wake = now + ReconnectDelays[eLoop.attempt]]
    /\ UNCHANGED <<now, eClosed, eReconnecting, eCurrent, eExtend, eWritten, eLastEvent, notSse>>

\* the sleep of the catch block is over: the next iteration, or after the
\* last one send('error', { error: 'ws_reconnect_failed' }), line 143
ReconnectTimer ==
    /\ eLoop.pc = "sleeping"
    /\ now >= eLoop.wake
    /\ IF eLoop.attempt < Len(ReconnectDelays)
       THEN /\ Iteration(eLoop.attempt + 1, eClients)
            /\ UNCHANGED <<eWritten, eLastEvent>>
       ELSE /\ Send("ws_reconnect_failed")
            /\ eLoop' = IdleLoop
            /\ UNCHANGED eClients
    /\ UNCHANGED <<now, eClosed, eReconnecting, eCurrent, eExtend, notSse>>

\* an upstream client delivers a message to the listener of line 115 / 135
UpstreamMessage(i) ==
    /\ eClients[i].sock = "open"
    /\ eClients[i].onMessage
    /\ eClosed \/ eWritten < MaxWrites
    /\ Send("message")
    /\ UNCHANGED <<now, eClosed, eReconnecting, eLoop, eClients, eCurrent, eExtend, notSse>>

\* the client's connection closes: req.raw 'close', lines 148-157; ws is the
\* first client, and the 'close' event of its socket finds closed set
ClientDisconnects ==
    /\ ~eClosed
    /\ eClosed' = TRUE
    /\ eExtend' = IF eExtend = "scheduled" THEN "off" ELSE eExtend
    /\ eClients' = [eClients EXCEPT ![1].closeCalled = TRUE,
                                    ![1].sock = IF @ \in {"open", "connecting"} THEN "closed" ELSE @]
    /\ UNCHANGED <<now, eReconnecting, eLoop, eCurrent, eWritten, eLastEvent, notSse>>

\* the auto-extend timer fires: lines 84-87
ExtendFires ==
    /\ eExtend = "scheduled"
    /\ eExtend' = IF eClosed THEN "off" ELSE "extending"
    /\ UNCHANGED <<now, eClosed, eReconnecting, eLoop, eClients, eCurrent, eWritten, eLastEvent, notSse>>

\* auth.extend(token) resolves (lines 88-100) or rejects (lines 101-107)
ExtendEnds(ok) ==
    /\ eExtend = "extending"
    /\ eClosed \/ eWritten < MaxWrites
    /\ Send(IF ok THEN "token_extended" ELSE "extend_failed")
    /\ eExtend' = IF ok THEN "scheduled" ELSE "off"
    /\ UNCHANGED <<now, eClosed, eReconnecting, eLoop, eClients, eCurrent, notSse>>

\* time passes up to the end of the loop's sleep
SseTick ==
    /\ eLoop.pc = "sleeping"
    /\ eLoop.wake > now
    /\ now' = eLoop.wake
    /\ UNCHANGED <<sseVars, notSse>>

SseIdle ==
    /\ eClosed = FALSE
    /\ eReconnecting = FALSE
    /\ eLoop = IdleLoop
    /\ eClients = [i \in Upstreams |-> NoUpstream]
    /\ eCurrent = 0
    /\ eExtend = "off"
    /\ eWritten = 0
    /\ eLastEvent = "none"

\* lines 114-148 have run: ws is connected and subscribed, onMessage and
\* onClose are registered on it; the token may or may not carry an expiry
SseInit ==
    /\ now = Epoch
    /\ eClosed = FALSE
    /\ eReconnecting = FALSE
    /\ eLoop = IdleLoop
    /\ eClients = [i \in Upstreams |->
                     IF i = 1 THEN [sock |-> "open", closeCalled |-> FALSE,
                                    onClose |-> TRUE, onMessage |-> TRUE]
                     ELSE NoUpstream]
    /\ eCurrent = 1
    /\ eExtend \in {"off", "scheduled"}
    /\ eWritten = 0
    /\ eLastEvent = "none"

(***************************************************************************)
(* Specifications                                                          *)
(***************************************************************************)
InitGate == GateInit(Callers) /\ CacheIdle /\ RetryIdle /\ BrkIdle /\ IdemIdle /\ SvcIdle /\ PubIdle /\ WsIdle /\ RestIdle /\ SseIdle

NextGate ==
    \/ \E c \in Callers : WaitCall(c)
    \/ \E c \in Callers : WaitWake(c)
    \/ GateTick

\* concurrent callers on one gate
SpecGate == InitGate /\ [][NextGate]_vars

InitGateSeq == GateInit({1}) /\ CacheIdle /\ RetryIdle /\ BrkIdle /\ IdemIdle /\ SvcIdle /\ PubIdle /\ WsIdle /\ RestIdle /\ SseIdle

NextGateSeq ==
    \/ \E c \in gCallers : WaitCall(c)
    \/ \E c \in gCallers : WaitWake(c)
    \/ GateTick

\* one caller that awaits each wait() before it issues the next
SpecGateSeq == InitGateSeq /\ [][NextGateSeq]_vars

InitCache == CacheInit /\ GateIdle /\ RetryIdle /\ BrkIdle /\ IdemIdle /\ SvcIdle /\ PubIdle /\ WsIdle /\ RestIdle /\ SseIdle

NextCache ==
    \/ \E k \in Keys : CacheGet(k)
    \/ \E k \in Keys, v \in Values, ttl \in TtlArgs : CacheSet(k, v, ttl)
    \/ \E k \in Keys : CacheHas(k)
    \/ \E k \in Keys : CacheDelete(k)
    \/ CacheClear
    \/ CacheCleanup
    \/ CacheTick

SpecCache == InitCache /\ [][NextCache]_vars

InitRetry == RetryInit /\ GateIdle /\ CacheIdle /\ BrkIdle /\ IdemIdle /\ SvcIdle /\ PubIdle /\ WsIdle /\ RestIdle /\ SseIdle

NextRetry ==
    \/ RetrySucceeds
    \/ \E e \in Thrown : RetryFails(e)
    \/ RetryWake
    \/ RetryLoopEnds

\* one call of retryWithBackoff
SpecRetry == InitRetry /\ [][NextRetry]_vars

InitBrk == BrkInit /\ GateIdle /\ CacheIdle /\ RetryIdle /\ IdemIdle /\ SvcIdle /\ PubIdle /\ WsIdle /\ RestIdle /\ SseIdle

NextBrk ==
    \/ \E s \in ExecSlots : Execute(s)
    \/ \E s \in ExecSlots : FnResolves(s)
    \/ \E s \in ExecSlots : FnRejects(s)
    \/ BrkTick

\* overlapping execute() calls on one breaker
SpecBrk == InitBrk /\ [][NextBrk]_vars

InitOrders == IdemInit(Requests) /\ GateIdle /\ CacheIdle /\ RetryIdle /\ BrkIdle /\ SvcIdle /\ PubIdle /\ WsIdle /\ RestIdle /\ SseIdle

\* a step of the handler of some request, or of the clock
HandlerStep ==
    \/ \E r \in DOMAIN iReqs : LookupLocal(r)
    \/ \E r \in DOMAIN iReqs, ok \in BOOLEAN : LookupRemote(r, ok)
    \/ \E r \in DOMAIN iReqs : PlaceFails(r)
    \/ \E r \in DOMAIN iReqs : PlaceSucceeds(r)
    \/ \E r \in DOMAIN iReqs, ok \in BOOLEAN : StoreRemote(r, ok)
    \/ IdemTick

NextOrders ==
    \/ \E r \in DOMAIN iReqs, h \in IdemHeaders, v \in BOOLEAN : Arrive(r, h, DefaultTenant, v)
    \/ HandlerStep

\* order requests on POST /v1/orders/limit, handled concurrently
SpecOrders == InitOrders /\ [][NextOrders]_vars

InitResend == IdemInit(ResendRequests) /\ GateIdle /\ CacheIdle /\ RetryIdle /\ BrkIdle /\ SvcIdle /\ PubIdle /\ WsIdle /\ RestIdle /\ SseIdle

NextResend ==
    \/ \E r \in DOMAIN iReqs : Arrive(r, ResendKey, DefaultTenant, TRUE)
    \/ HandlerStep

\* one client sends an order and sends it again, every time with the same
\* Idempotency-Key and the same valid body
SpecResend == InitResend /\ [][NextResend]_vars

\* requests that all carry the same key, with a valid or an invalid body
InitKeyed == IdemInit(Requests) /\ GateIdle /\ CacheIdle /\ RetryIdle /\ BrkIdle /\ SvcIdle /\ PubIdle /\ WsIdle /\ RestIdle /\ SseIdle

NextKeyed ==
    \/ \E r \in Requests, v \in BOOLEAN : Arrive(r, ResendKey, DefaultTenant, v)
    \/ HandlerStep

SpecKeyed == InitKeyed /\ [][NextKeyed]_vars

\* requests with the same key that come from different tenants and routes
InitTenants == IdemInit(Requests) /\ GateIdle /\ CacheIdle /\ RetryIdle /\ BrkIdle /\ SvcIdle /\ PubIdle /\ WsIdle /\ RestIdle /\ SseIdle

\* the handlers never read the tenant or the route after getCreds, so the
\* first request is taken from the default tenant on /v1/orders/limit
NextTenants ==
    \/ ArriveOn("limit", 1, ResendKey, DefaultTenant, TRUE)
    \/ \E r \in Requests \ {1}, o \in Origins : ArriveOn(o[2], r, ResendKey, o[1], TRUE)
    \/ HandlerStep

SpecTenants == InitTenants /\ [][NextTenants]_vars

InitIdem == IdemInit(Requests) /\ GateIdle /\ CacheIdle /\ RetryIdle /\ BrkIdle /\ SvcIdle /\ PubIdle /\ WsIdle /\ RestIdle /\ SseIdle

NextIdem ==
    \/ \E k \in IdemKeys, ok \in BOOLEAN : GetIdempotent(k, ok)
    \/ \E k \in IdemKeys \ {""}, st \in IdemStatuses, b \in IdemBodies, ttl \in IdemTtlArgs, ok \in BOOLEAN :
         SetIdempotent(k, st, b, ttl, ok)
    \/ RedisConfigured
    \/ IdemTick

\* getIdempotent / setIdempotent called directly, one call at a time
SpecIdem == InitIdem /\ [][NextIdem]_vars

InitSvcGate == SvcInit /\ GateIdle /\ CacheIdle /\ RetryIdle /\ BrkIdle /\ IdemIdle /\ PubIdle /\ WsIdle /\ RestIdle /\ SseIdle

NextSvcGate ==
    \/ \E c \in SvcCallers : WaitGateCall(c)
    \/ \E c \in SvcCallers : TakeWindowRead(c)
    \/ \E c \in SvcCallers : TakeWindowIncr(c)
    \/ \E c \in SvcCallers : TakeWindowExpire(c)
    \/ \E c \in SvcCallers : WaitGateThrows(c)
    \/ \E c \in SvcCallers : WaitGateWake(c)
    \/ SvcTick

SpecSvcGate == InitSvcGate /\ [][NextSvcGate]_vars

InitPub == PubInit /\ GateIdle /\ CacheIdle /\ RetryIdle /\ BrkIdle /\ IdemIdle /\ SvcIdle /\ WsIdle /\ RestIdle /\ SseIdle

NextPub ==
    \/ \E c \in PubCallIds, m \in PubMethods, y \in PubSymbols : PubCall(c, m, y)
    \/ \E c \in PubCallIds, body \in PubBodies : PubResolves(c, body)
    \/ \E c \in PubCallIds : PubRejects(c)
    \/ PubTick

SpecPub == InitPub /\ [][NextPub]_vars

InitWs == WsInit /\ GateIdle /\ CacheIdle /\ RetryIdle /\ BrkIdle /\ IdemIdle /\ SvcIdle /\ PubIdle /\ RestIdle /\ SseIdle

NextWs ==
    \/ \E k \in WsClients : WsConnect(k)
    \/ \E k \in WsClients : WsSocketOpens(k)
    \/ \E k \in WsClients : WsSocketErrors(k)
    \/ \E k \in WsClients : WsSocketAborted(k)
    \/ \E k \in WsClients : WsSocketClosed(k)
    \/ \E k \in WsClients : WsTimeoutFires(k)
    \/ \E k \in WsClients : WsClose(k)

SpecWs == InitWs /\ [][NextWs]_vars

NextWsSub ==
    \/ NextWs
    \/ \E k \in WsClients, op \in WsSubOps : WsSubscribe(k, op)
    \/ \E k \in WsClients : WsGateWake(k)
    \/ WsTick

\* clients that also subscribe and unsubscribe
SpecWsSub == InitWs /\ [][NextWsSub]_vars

InitRest == RestInit /\ GateIdle /\ CacheIdle /\ RetryIdle /\ BrkIdle /\ IdemIdle /\ SvcIdle /\ PubIdle /\ WsIdle /\ SseIdle

NextRest ==
    \/ \E c \in RestCallIds, verb \in RestVerbs : RestCall(c, verb)
    \/ \E c \in RestCallIds, verb \in RestVerbs : RouteRequest(c, verb)
    \/ \E c \in RestCallIds : RouteHandler(c)
    \/ \E c \in RestCallIds : GateWake(c)
    \/ \E c \in RestCallIds, res \in Responses : FetchResolves(c, res)
    \/ \E c \in RestCallIds : FetchRejects(c)
    \/ RestTick

\* requests made on the client and through the service's routes
SpecRest == InitRest /\ [][NextRest]_vars

InitRetryBrk == CbInit /\ GateIdle /\ CacheIdle /\ IdemIdle /\ SvcIdle /\ PubIdle /\ WsIdle /\ RestIdle /\ SseIdle

NextRetryBrk ==
    \/ CbExecuteThrows
    \/ CbExecuteInvokes
    \/ CbFnResolves
    \/ \E e \in FnErrors : CbFnRejects(e)
    \/ RetryWake
    \/ RetryLoopEnds

\* one call of retryWithCircuitBreaker
SpecRetryBrk == InitRetryBrk /\ [][NextRetryBrk]_vars

InitSse == SseInit /\ GateIdle /\ CacheIdle /\ RetryIdle /\ BrkIdle /\ IdemIdle /\ SvcIdle /\ PubIdle /\ WsIdle /\ RestIdle

\* the steps the bridge takes by itself: timers and the ends of its awaits
BridgeStep ==
    \/ ReconnectConnects
    \/ ReconnectSubscribes
    \/ ReconnectFails
    \/ ReconnectTimer
    \/ ExtendFires
    \/ \E ok \in BOOLEAN : ExtendEnds(ok)
    \/ SseTick

NextSse ==
    \/ \E i \in Upstreams : UpstreamCloses(i)
    \/ \E i \in Upstreams : UpstreamMessage(i)
    \/ ClientDisconnects
    \/ BridgeStep

\* one established stream; timers fire and awaited calls end, while nothing
\* obliges the upstream or the client to close a connection
SpecSse == InitSse /\ [][NextSse]_vars /\ WF_vars(BridgeStep)


(***************************************************************************)
(* Claims                                                                  *)
(***************************************************************************)
\* C1: any two returns of wait() on one gate are at least intervalMs apart,
\* also when the calls were issued concurrently.
GateReleasesSpaced ==
    \A i, j \in 1..Len(gReleases) :
        i < j => gReleases[j] - gReleases[i] >= gIntervalMs

\* C9: after every operation the cache holds at most maxSize entries.
CacheSizeBounded == CacheSize <= cMaxSize

\* C10: a set() of a new key into a full cache (maxSize >= 1) evicts exactly
\* the least recently touched key and keeps the new one, so the cache again
\* holds exactly maxSize entries.
CacheSetEvictsLeastRecent ==
    [][\A k \in Keys :
         ( /\ now' = now
           /\ cLast'.op = "set" /\ cLast'.key = k
           /\ k \notin DOMAIN cCache
           /\ cMaxSize >= 1
           /\ CacheSize = cMaxSize )
         => DOMAIN cCache' = ((DOMAIN cCache) \ {Head(cTouch)}) \cup {k}]_vars

\* the predicate's verdict on the failure that was handled last
LastFailureRetryable == ShouldRetry(rOpts.shouldRetry, rLastError, rAttempt)

\* C6: the operation is invoked at most 1 + maxRetries times; a call that
\* returns has invoked it once more than it failed; a call whose failures were
\* all retryable raises after exactly maxRetries + 1 invocations.
RetryInvocationsBounded ==
    /\ rInvocations <= 1 + rOpts.maxRetries
    /\ rPc = "returned" => rInvocations = rFailures + 1 /\ rFailures <= rOpts.maxRetries
    /\ (rPc = "raised" /\ (rFailures = 0 \/ LastFailureRetryable))
         => rInvocations = rOpts.maxRetries + 1 /\ rFailures = rInvocations

RetryExhaustedReached ==
    /\ rPc = "raised" /\ LastFailureRetryable
    /\ rOpts.maxRetries = 2 /\ rInvocations = 3 /\ rSleeps = 2

\* C7: a failure the retry predicate rejects ends the call at once: the error
\* is raised with no sleep after it, and when it is the first failure the
\* operation was invoked exactly once and no time has passed.
RetryRejectedRaisesAtOnce ==
    /\ rPc = "sleeping" => LastFailureRetryable
    /\ (rPc = "raised" /\ rFailures >= 1 /\ ~LastFailureRetryable)
         => /\ rSleeps = rFailures - 1
            /\ rInvocations = rFailures
            /\ (rFailures = 1 => rInvocations = 1 /\ rSleeps = 0 /\ now = Epoch)

RetryRejectedReached ==
    /\ rPc = "raised" /\ rFailures = 1 /\ ~LastFailureRetryable
    /\ rOpts.maxRetries >= 1 /\ rInvocations = 1 /\ rSleeps = 0

\* C8: the value retryWithBackoff raises is the very value the operation
\* rejected with last, whatever kind of value that is.
RetryRaisesOriginalValue ==
    (rPc = "raised" /\ rFailures >= 1) => rRaised = rThrown

\* a step in which execute() is called
ExecuteCalled == bExecs' = bExecs + 1
\* a step in which fn() of a call in flight rejects
FnRejected == bLast'.kind = "error" /\ \E s \in ExecSlots : bCalls[s].pc = "inflight" /\ bCalls'[s].pc = "idle"
\* every option was given to the constructor (or none was)
AllOptionsSet == bOpts.failureThreshold # <<>> /\ bOpts.successThreshold # <<>> /\ bOpts.timeout # <<>>

\* C3: an execute() called while the state is OPEN and now < nextAttemptTime
\* raises the breaker-open error, invokes nothing and leaves the breaker as
\* it is.
BreakerOpenRejects ==
    [][(ExecuteCalled /\ bState = "OPEN" /\ JsLt(now, bNext))
        => /\ bLast'.kind = "open"
           /\ bLast'.remaining = <<bNext[1] - now>>
           /\ bCalls' = bCalls
           /\ bState' = "OPEN"
           /\ UNCHANGED <<bFailureCount, bSuccessCount, bNext>>]_vars

BreakerOpenRejected ==
    /\ bLast.kind = "open" /\ bState = "OPEN" /\ JsLt(now, bNext)
    /\ InFlight = {}

\* C4: a failure of the wrapped operation while the state is HALF_OPEN moves
\* the breaker to OPEN and clears the success count, whatever was counted
\* before.
BreakerHalfOpenFailureReopens ==
    [][(FnRejected /\ bState = "HALF_OPEN" /\ AllOptionsSet)
        => bState' = "OPEN" /\ bSuccessCount' = 0]_vars

\* C5: while the state is HALF_OPEN at most one probe is in flight.
BreakerSingleProbe ==
    bState = "HALF_OPEN" => Cardinality({s \in InFlight : bCalls[s].probe}) <= 1

\* a request whose upstream placement was invoked and has not failed
Placed(r) == iReqs[r].orderId > 0

\* C2: for one idempotency key, within the TTL, the upstream placement is
\* invoked again only when every earlier placement for the key has failed.
OrdersPlacedOncePerKey ==
    \A r1, r2 \in DOMAIN iReqs :
        ( /\ r1 # r2
          /\ iReqs[r1].key # "" /\ iReqs[r1].key = iReqs[r2].key
          /\ Placed(r1) /\ Placed(r2) )
        => iReqs[r2].placedAt - iReqs[r1].placedAt > IdemDefaultTtlMs
           \/ iReqs[r1].placedAt - iReqs[r2].placedAt > IdemDefaultTtlMs

\* the entry of key k can be read: it is stored and now < expiresAt
Readable(k) == k \in DOMAIN cCache /\ now < cCache[k].expiresAt

\* C11: get(key) returns the stored value exactly when the key is present and
\* now < expiresAt; on a present but expired entry it removes the entry
\* (size() drops by one) and returns undefined; on an absent key it returns
\* undefined and leaves the entries alone.
CacheGetReadsUnexpired ==
    [][\A k \in Keys :
         (now' = now /\ cLast'.op = "get" /\ cLast'.key = k)
         => /\ cLast'.ok <=> Readable(k)
            /\ Readable(k) => cLast'.val = cCache[k].value /\ cCache' = cCache
            /\ ~Readable(k) => cLast'.val = Undefined
            /\ (k \in DOMAIN cCache /\ ~Readable(k))
                 => /\ k \notin DOMAIN cCache'
                    /\ Cardinality(DOMAIN cCache') = CacheSize - 1
            /\ k \notin DOMAIN cCache => cCache' = cCache]_vars

\* a get() has just removed an expired entry while another entry stays
CacheGetExpiredReached ==
    /\ cLast.op = "get" /\ ~cLast.ok /\ cLast.n = 1
    /\ cLast.key \notin DOMAIN cCache
    /\ cCache # <<>>

\* C12: on the local backend getIdempotent(key) returns the entry of the most
\* recent setIdempotent(key, ...) exactly when now - createdAt <= ttlMs, and
\* otherwise returns undefined, and a read of an expired entry deletes it.
IdemLocalGetWithinTtl ==
    [][\A k \in IdemKeys \ {""} :
         (now' = now /\ ~iRedisOn' /\ iLast'.op = "get" /\ iLast'.key = k)
         => LET fresh == k \in DOMAIN iSets /\ now - iSets[k].createdAt <= iSets[k].ttlMs IN
              /\ iLast'.found <=> fresh
              /\ fresh => iLast'.entry = iSets[k]
              /\ ~fresh => iLast'.entry = NoEntry /\ k \notin DOMAIN iStore'
              /\ ~iLast'.threw]_vars

\* a local read has just found an expired entry and deleted it
IdemLocalExpiredRead ==
    /\ ~iRedisOn
    /\ iLast.op = "get" /\ ~iLast.found /\ iLast.key # ""
    /\ iLast.key \in DOMAIN iSets /\ iLast.key \notin DOMAIN iStore

\* the time at which request r consulted the idempotency cache
LookedAt(r) == IF iReqs[r].fromCache THEN iReqs[r].doneAt ELSE iReqs[r].placedAt

\* request r has consulted the idempotency cache for its key
LookedUp(r) ==
    /\ iReqs[r].key # ""
    /\ iReqs[r].pc \in {"placing", "storing", "done"}
    /\ iReqs[r].cause \notin {"invalid", "store"} \/ iReqs[r].orderId > 0

\* C13: a request with key K that arrives after a request with K was answered
\* 200 from upstream, and looks the key up within the TTL, is answered from
\* the cache with that first answer's status and body and places no order.
OrdersLaterRequestGetsFirstReply ==
    \A q, r \in DOMAIN iReqs :
        ( /\ q \in iReqs[r].after
          /\ \A p \in iReqs[r].after : iReqs[p].key = iReqs[q].key => iReqs[q].doneAt <= iReqs[p].doneAt
          /\ iReqs[r].key = iReqs[q].key
          /\ LookedUp(r)
          /\ LookedAt(r) - iReqs[q].doneAt < IdemDefaultTtlMs )
        => /\ iReqs[r].fromCache
           /\ iReqs[r].status = iReqs[q].status
           /\ iReqs[r].body = iReqs[q].body

\* a step in which fn() of a call in flight resolves
FnResolved == bLast'.kind = "resolved" /\ \E s \in ExecSlots : bCalls[s].pc = "inflight" /\ bCalls'[s].pc = "idle"

\* C14: every success sets the failure count to 0 and every failure adds one
\* to it; a CLOSED breaker (built with a failureThreshold) moves to OPEN in
\* exactly the steps in which a failure brings the count to failureThreshold,
\* and otherwise stays CLOSED.
BreakerOpensAtThreshold ==
    [][/\ FnResolved => bFailureCount' = 0
       /\ FnRejected => bFailureCount' = bFailureCount + 1
       /\ (bState = "CLOSED" /\ bOpts.failureThreshold # <<>>)
            => /\ bFailureCount < bOpts.failureThreshold[1]
               /\ bState' = "OPEN" <=> (FnRejected /\ bFailureCount + 1 = bOpts.failureThreshold[1])
               /\ bState' \in {"CLOSED", "OPEN"}]_vars

\* a breaker with threshold 2 has just been opened by its second failure in a row
BreakerOpenedAtThreshold ==
    /\ bOpts.failureThreshold = <<2>>
    /\ bState = "OPEN" /\ bLast.kind = "error" /\ bFailureCount = 2
    /\ InFlight = {}

\* C15: for a breaker built with all its options, an execute() called while
\* OPEN with the cooldown elapsed moves to HALF_OPEN and invokes fn; the
\* success count is 0 whenever the state is OPEN, grows by one with each
\* success in HALF_OPEN and is cleared by a failure; the success that brings
\* it to successThreshold moves to CLOSED with both counters at 0.
BreakerRecoversAfterCooldown ==
    [][AllOptionsSet =>
         /\ bState = "OPEN" => bSuccessCount = 0
         /\ (ExecuteCalled /\ bState = "OPEN" /\ ~JsLt(now, bNext))
              => /\ bState' = "HALF_OPEN"
                 /\ bLast'.kind = "invoked"
                 /\ \E s \in ExecSlots : bCalls[s].pc = "idle" /\ bCalls'[s].pc = "inflight"
         /\ (ExecuteCalled /\ bState = "HALF_OPEN") => UNCHANGED <<bState, bSuccessCount>>
         /\ (FnResolved /\ bState = "HALF_OPEN")
              => IF bSuccessCount + 1 >= bOpts.successThreshold[1]
                 THEN bState' = "CLOSED" /\ bSuccessCount' = 0 /\ bFailureCount' = 0
                 ELSE bState' = "HALF_OPEN" /\ bSuccessCount' = bSuccessCount + 1
         /\ FnRejected => bSuccessCount' = 0]_vars

\* a breaker with successThreshold 2 that had been opened is CLOSED again
\* after its second success in HALF_OPEN
BreakerClosedAgain ==
    /\ AllOptionsSet /\ bOpts.successThreshold = <<2>>
    /\ bState = "CLOSED" /\ bLast.kind = "resolved"
    /\ bNext # <<0>>
    /\ bFailureCount = 0 /\ bSuccessCount = 0
    /\ InFlight = {}

\* C16: an option that was not given to the constructor has its default
\* value: the breaker opens at OrDefault(failureThreshold, 5) failures, with
\* nextAttemptTime at OrDefault(timeout, 60000) ms after the call, and closes
\* at OrDefault(successThreshold, 2) successes in HALF_OPEN.
BreakerOmittedOptionsDefault ==
    [][/\ (FnRejected /\ bFailureCount + 1 >= OrDefault(bOpts.failureThreshold, DefaultFailureThreshold))
            => /\ bState' = "OPEN"
               /\ \E s \in ExecSlots :
                    /\ bCalls[s].pc = "inflight" /\ bCalls'[s].pc = "idle"
                    /\ bNext' = <<bCalls[s].start + OrDefault(bOpts.timeout, DefaultTimeout)>>
       /\ (FnResolved /\ bState = "HALF_OPEN"
             /\ bSuccessCount + 1 >= OrDefault(bOpts.successThreshold, DefaultSuccessThreshold))
            => bState' = "CLOSED"]_vars

\* C17: with one caller that awaits each wait() before the next, the k-th
\* return comes at least (k-1) * ceil(1000/N) ms after the first, and the
\* first wait() after construction returns in the step in which it is called.
GateSequentialSpacing ==
    [][/\ \A k \in 1..Len(gReleases') :
            gReleases'[k] - gReleases'[1] >= (k - 1) * CeilDiv(1000, gOps)
       /\ (gReleases = <<>> /\ now' = now) => gReleases' = <<now>>]_vars

\* three awaited calls have returned, the third exactly two intervals after the first
GateThreeSequentialReturns ==
    /\ gCallers = {1}
    /\ Len(gReleases) = 3
    /\ gReleases[3] - gReleases[1] = 2 * CeilDiv(1000, gOps)

\* C18: with the default predicate a failure with a permanent error is never
\* followed by a retry: the call raises at once, whatever the message says.
DefaultPredicateNeverRetriesPermanent ==
    (rOpts.shouldRetry = "default" /\ rFailures >= 1 /\ rLastError \in PermanentErrors)
        => rPc = "raised"

\* C19: while the shared store is configured, a getIdempotent / setIdempotent
\* call leaves the in-process map alone; it rejects exactly when the store's
\* connect, read or write fails, and then changes nothing; a read returns the
\* parsed value of the live key idem:<key> of the store and nothing else; a
\* write sets idem:<key> to the serialized entry with expiry ttlMs.
IdemStoreOnly ==
    [][(iRedisOn /\ now' = now /\ iLast'.op \in {"get", "set"})
        => LET k == iLast'.key
               rk == RedisKey(k)
           IN /\ iStore' = iStore
              /\ (k # "" \/ iLast'.op = "set") => (iLast'.threw <=> iRedisStatus' = "end")
              /\ iLast'.threw => iRemote' = iRemote
              /\ (iLast'.op = "get" /\ k # "" /\ ~iLast'.threw)
                   => /\ iLast'.found <=> RedisAlive(rk, now)
                      /\ iLast'.found => iLast'.entry = JsonParse(iRemote[rk].raw)
                      /\ iRemote' = iRemote
              /\ (iLast'.op = "set" /\ ~iLast'.threw)
                   => iRemote' = MapSet(iRemote, rk,
                          [raw |-> JsonStringify(iLast'.entry),
                           expiresAt |-> now + iLast'.entry.ttlMs])]_vars

\* the store is configured, the in-process map still holds an entry for the
\* key, and a read of the key has found nothing in the store and returned absent
IdemStoreMissIgnoresLocal ==
    /\ iRedisOn
    /\ iLast.op = "get" /\ ~iLast.found /\ ~iLast.threw
    /\ iLast.key \in DOMAIN iStore /\ now - iStore[iLast.key].createdAt <= iStore[iLast.key].ttlMs

\* C20: a step of the handler of a request that carries no idempotency key
\* (its getIdempotent(undefined) call included) changes neither the
\* in-process map nor the store nor the store connection, and such a request
\* is never answered from the cache.
OrdersWithoutKeyBypassCache ==
    [][\A r \in DOMAIN iReqs :
         (iReqs'[r].key = "" /\ iReqs'[r] # iReqs[r])
         => /\ UNCHANGED <<iStore, iRemote, iRedisStatus>>
            /\ ~iReqs'[r].fromCache]_vars

\* a request without a key has been answered with its own order while the
\* cache holds the entry of another request
OrdersKeylessPlaced ==
    \E r \in DOMAIN iReqs :
        /\ iReqs[r].key = "" /\ Succeeded(r)
        /\ iStore # <<>> \/ iRemote # <<>>

\* C21: with the shared store configured, on the counter of every unix-second
\* window at most `limit` callers of the class's gate are admitted
SvcWindowAdmitsAtMostLimit ==
    \A sec \in DOMAIN wAdmitted : wAdmitted[sec] <= LimitOf(wClass)

\* C22: on a public REST client, a getTicker / getOrderBook call made after a
\* call with the same arguments has returned and before the cache TTL has
\* elapsed returns the cached response without calling the transport, and a
\* call made once the TTL has elapsed calls the transport again
PubRepeatedCallCached ==
    \A c \in PubCallIds :
        (pCalls[c].pc # "idle" /\ pCalls[c].method \in {"ticker", "orderbook"})
        => /\ pCalls[c].prior # <<>>
                => /\ ~pCalls[c].fetched
                   /\ pCalls[c].pc = "done"
                   /\ pCalls[c].result = pCalls[c].prior[1]
           /\ pCalls[c].stale => pCalls[c].fetched

\* C23: getTrades / getKlines are cached like getTicker: a call repeated with
\* the same arguments within the TTL does not call the transport
PubTradesKlinesCached ==
    \A c \in PubCallIds :
        (pCalls[c].pc # "idle" /\ pCalls[c].method \in {"trades", "klines"}
           /\ pCalls[c].prior # <<>>)
        => ~pCalls[c].fetched

WsConnected(k) == xClients[k].ws /\ xClients[k].sock = "open"

\* C24: for a WebSocket client closed is terminal: once close() has been
\* called every connect() rejects with 'already closed' and changes nothing,
\* the client holds no socket, runs no keepalive and its connect() promise
\* never resolves afterwards, and a further close() changes nothing
WsClosedIsTerminal ==
    [][\A k \in WsClients :
         xClients[k].closed
         => /\ xClients'[k].closed
            /\ ~xClients'[k].ws /\ ~WsConnected(k)'
            /\ ~xClients'[k].pingTimer
            /\ xClients'[k].promise = "resolved" => xClients[k].promise = "resolved"
            /\ xClients'[k].calls # xClients[k].calls
                 => /\ xClients' = [xClients EXCEPT ![k] = [@ EXCEPT !.calls = @ + 1]]
                    /\ xLast'.op = "connect" => xLast'.outcome = "closed"
                    /\ xLast'.op = "close" => xLast'.outcome = "done"]_vars

\* a client that was connected and then closed has refused a connect()
WsClosedRefusedConnect ==
    \E k \in WsClients :
        /\ xClients[k].closed /\ xClients[k].promise = "resolved"
        /\ xLast = WsCall(k, "connect", "closed")

\* C25: when a failed call opens the breaker, nextAttemptTime is the time of
\* that failure plus the configured timeout, however long the call took
BreakerCooldownFromFailure ==
    [][(bFailureCount' = bFailureCount + 1 /\ bState # "OPEN" /\ bState' = "OPEN"
          /\ bOpts.timeout # <<>>)
       => bNext' = <<now + bOpts.timeout[1]>>]_vars

\* C26: the suspension before the k-th retry lasts the computed delay, which
\* is at least 1 ms and is min(initialDelay * backoffMultiplier^(k-1), maxDelay)
\* changed by at most the fraction jitterFactor of it, or 1 ms when that is
\* below 1 ms; with jitterFactor = 0 it is exactly max(1, min(...))
RetryDelayFormula ==
    [][LET base == Min(rOpts.initialDelay * Pow(rOpts.backoffMultiplier, rSleeps),
                       rOpts.maxDelay)
           off == IF rDelay' >= base THEN rDelay' - base ELSE base - rDelay'
       IN /\ rSleeps' = rSleeps + 1
             => /\ rDelay' >= 1
                /\ 100 * off <= rOpts.jitterPct * base \/ rDelay' = 1
                /\ rOpts.jitterPct = 0 => rDelay' = Max(1, base)
          /\ (rPc = "sleeping" /\ rPc' # "sleeping") => now' = now + rDelay]_vars

\* the second retry was delayed from the capped value, with a jitter that
\* took it down to the 1 ms floor
RetryDelayCappedReached ==
    /\ rPc = "sleeping" /\ rSleeps = 2
    /\ rOpts.initialDelay * Pow(rOpts.backoffMultiplier, 1) > rOpts.maxDelay
    /\ rOpts.jitterPct > 100 /\ rDelay = 1

\* C27: after every cache operation the recency list holds exactly the keys
\* of the entry map, each once, ordered with the most recently touched last
CacheOrderMatchesEntries ==
    /\ {cOrder[i] : i \in DOMAIN cOrder} = DOMAIN cCache
    /\ \A i, j \in DOMAIN cOrder : cOrder[i] = cOrder[j] => i = j
    /\ cOrder = cTouch

\* the recency list restricted to a set of keys
OrderOf(order, ks) == SelectSeq(order, LAMBDA k : k \in ks)

\* C28: has(key) returns true exactly when the key is present and unexpired,
\* removes the entry when it is expired, and leaves every other entry and the
\* recency order of every live key as they were
CacheHasReadsOnly ==
    [][\A k \in Keys :
         (now' = now /\ cLast'.op = "has" /\ cLast'.key = k)
         => /\ cLast'.ok <=> Readable(k)
            /\ Readable(k) => cCache' = cCache /\ cOrder' = cOrder
            /\ (k \in DOMAIN cCache /\ ~Readable(k)) => cCache' = MapDelete(cCache, k)
            /\ k \notin DOMAIN cCache => cCache' = cCache
            /\ OrderOf(cOrder', DOMAIN cCache') = OrderOf(cOrder, DOMAIN cCache')]_vars

\* has() has just answered true for the least recently used of two keys,
\* which is still the first in line for eviction
CacheHasOnOldestReached ==
    /\ cLast.op = "has" /\ cLast.ok
    /\ Len(cOrder) = 2 /\ cOrder[1] = cLast.key

\* C29: cleanup() removes exactly the entries that are expired at the time of
\* the call, returns their number, and leaves every unexpired entry, its
\* value and the relative recency order of the unexpired keys unchanged
CacheCleanupRemovesExpired ==
    [][(now' = now /\ cLast'.op = "cleanup")
       => LET live == {k \in DOMAIN cCache : Readable(k)}
          IN /\ DOMAIN cCache' = live
             /\ \A k \in live : cCache'[k] = cCache[k]
             /\ cLast'.n = Cardinality((DOMAIN cCache) \ live)
             /\ OrderOf(cOrder', live) = OrderOf(cOrder, live)
             /\ \A i \in DOMAIN cOrder' : cOrder'[i] \in live]_vars

\* cleanup() has just removed one expired entry and kept an unexpired one
CacheCleanupPartialReached ==
    /\ cLast.op = "cleanup" /\ cLast.n = 1
    /\ cCache # <<>> /\ cOrder # <<>>

\* the order placed for a successful request is what an entry holds
WrittenBySuccess(k, entry) ==
    \E q \in DOMAIN iReqs :
        /\ iReqs[q].key = k /\ Succeeded(q)
        /\ entry.status = StatusOk /\ entry.body = iReqs[q].orderId

\* C30: a request with a key that fails validation or whose placement fails
\* leaves the idempotency cache as it was; every entry was written after a
\* successful placement; and a request with a key for which no placement has
\* succeeded is not answered from the cache but invokes the upstream
OrdersFailureWritesNoEntry ==
    /\ [][\A r \in DOMAIN iReqs :
            (iReqs'[r] # iReqs[r] /\ iReqs'[r].key # ""
               /\ iReqs'[r].cause \in {"invalid", "upstream"})
            => UNCHANGED <<iStore, iRemote, iSets>>]_vars
    /\ [](/\ \A k \in DOMAIN iStore : WrittenBySuccess(k, iStore[k])
          /\ \A k \in DOMAIN iSets : WrittenBySuccess(k, iSets[k])
          /\ \A r \in DOMAIN iReqs :
               ( /\ iReqs[r].key # ""
                 /\ iReqs[r].pc \in {"placing", "storing", "done"}
                 /\ iReqs[r].cause # "invalid"
                 /\ ~(iReqs[r].cause = "store" /\ iReqs[r].placedAt = 0)
                 /\ \A q \in DOMAIN iReqs : (q # r /\ iReqs[q].key = iReqs[r].key) => ~Succeeded(q) )
               => ~iReqs[r].fromCache /\ iReqs[r].placedAt > 0)

\* after a request whose placement failed, a later request with the same key
\* has placed its own order
OrdersRetriedAfterFailure ==
    \E r1, r2 \in DOMAIN iReqs :
        /\ r1 < r2 /\ iReqs[r1].key # "" /\ iReqs[r1].key = iReqs[r2].key
        /\ iReqs[r1].cause = "upstream" /\ Succeeded(r2)
        /\ iReqs[r2].placedAt >= iReqs[r1].doneAt
        /\ iPlacements = 2

\* C31: the idempotency lookup depends on the key alone: a request with key K
\* that arrives after a request with K was answered from upstream, and looks
\* the key up within the TTL, is answered from the cache with status 200 and
\* an order stored under K, whatever the tenant and the route of either request
OrdersEntriesNotScoped ==
    \A q, r \in DOMAIN iReqs :
        ( /\ q \in iReqs[r].after
          /\ iReqs[r].header = iReqs[q].header
          /\ LookedUp(r)
          /\ LookedAt(r) - iReqs[q].doneAt < IdemDefaultTtlMs )
        => /\ iReqs[r].fromCache
           /\ iReqs[r].status = StatusOk
           /\ \E p \in DOMAIN iReqs :
                /\ Succeeded(p) /\ iReqs[p].header = iReqs[r].header
                /\ iReqs[r].body = iReqs[p].orderId

\* a request of another tenant on another route has been answered with the
\* order that the first tenant placed
OrdersOtherTenantServed ==
    \E q, r \in DOMAIN iReqs :
        /\ Succeeded(q) /\ iReqs[r].fromCache
        /\ iReqs[r].tenant # iReqs[q].tenant /\ iReqs[r].route # iReqs[q].route
        /\ iReqs[r].body = iReqs[q].orderId

\* C32: a caller of the service gate on the shared store is never rejected
SvcGateNeverRejects ==
    \A c \in SvcCallers : wCalls[c].pc # "rejected"

RestSent(c) == qCalls[c].pc \in {"fetching", "done", "failed"}
RestCompleted(c) == qCalls[c].pc \in {"done", "failed"}

\* C33: every private REST request that has completed, whatever its outcome,
\* has recorded exactly one metrics request and exactly one audit entry, and
\* once no request is in flight totalRequests is the number of requests sent.
RestRecordsEachRequestOnce ==
    /\ \A c \in RestCallIds :
         RestCompleted(c) => qCalls[c].recorded = 1 /\ qCalls[c].audited = 1
    /\ (\A c \in RestCallIds : RestSent(c) => RestCompleted(c))
         => TotalRequests = Cardinality({c \in RestCallIds : RestSent(c)})

\* C34: with no shared store, a request through a gated route has consumed
\* exactly one release of its verb's gate when its upstream call is made, and
\* of two POST requests of which the second arrives within one interval after
\* the first's upstream call, the upstream calls are one interval apart.
RouteConsumesOneRelease ==
    /\ \A c \in RestCallIds :
         (qCalls[c].via = "route" /\ RestSent(c)) => qCalls[c].releases = 1
    /\ \A c, d \in RestCallIds :
         (/\ qCalls[c].via = "route" /\ qCalls[d].via = "route"
          /\ qCalls[c].verb = "post" /\ qCalls[d].verb = "post"
          /\ RestSent(c) /\ RestSent(d)
          /\ qCalls[d].arrivedAt >= qCalls[c].sentAt
          /\ qCalls[d].arrivedAt <= qCalls[c].sentAt + GateIntervalOf("post"))
         => qCalls[d].sentAt - qCalls[c].sentAt = GateIntervalOf("post")

\* C35: whatever the interleaving of overlapping execute() calls, a breaker
\* whose state is CLOSED has failureCount < failureThreshold and
\* successCount = 0.
BreakerClosedCounters ==
    bState = "CLOSED" => JsLt(bFailureCount, bOpts.failureThreshold) /\ bSuccessCount = 0

\* the breaker opened, was closed again by a probe while another call was in
\* flight, and that call has failed since
BreakerReclosedThenFailed ==
    /\ bState = "CLOSED" /\ bNext # <<0>>
    /\ bLast.kind = "error" /\ bFailureCount >= 1
    /\ bOpts.successThreshold # <<>> /\ bOpts.successThreshold[1] >= 2

\* C36: a call that started before the breaker opened and fails while it is
\* OPEN never moves nextAttemptTime to an earlier time.
BreakerLateFailureKeepsCooldown ==
    [][(FnRejected /\ bState = "OPEN" /\ AllOptionsSet)
        => bNext'[1] >= bNext[1]]_vars

\* C37: in retryWithCircuitBreaker with the default predicate, a step in
\* which breaker.execute() raises the breaker-open error ends the sequence:
\* that error is raised to the caller and no delay is scheduled, whatever the
\* remaining cooldown is.
OpenErrorEndsRetrySequence ==
    [][(ExecuteCalled /\ bLast'.kind = "open")
        => /\ rPc' = "raised"
           /\ rRaised' = OpenError(bLast'.remaining[1])
           /\ rSleeps' = rSleeps]_vars

\* C38: subscribe() / unsubscribe() call send() on the socket only while the
\* client holds a socket that is OPEN: no send is made on a socket that is
\* closing or closed, also when the call waited on the rate gate.
WsSendsOnlyWhenOpen ==
    xLast.op \in WsSubOps => xLast.outcome \notin {"sentOnClosing", "sentOnClosed"}

UpstreamLive(i) == eClients[i].sock \in {"connecting", "open"}

\* C39: once the client's connection has closed, no event is written to the
\* response, no upstream client is created, and every upstream client that
\* was opened for the stream is eventually closed.
SseClosesEveryUpstream ==
    /\ [][eClosed => /\ eWritten' = eWritten
                     /\ \A i \in Upstreams :
                          eClients[i].sock = "none" => eClients'[i].sock = "none"]_vars
    /\ (eClosed ~> (\A i \in Upstreams : ~UpstreamLive(i)))

\* C40: while the client is connected, a close of the current upstream
\* socket starts a reconnection sequence, and every sequence ends with a
\* connected and subscribed client, with a ws_reconnect_failed event written,
\* or with the client gone.
SseEveryCloseReconnects ==
    /\ [][(~eClosed /\ eCurrent # 0 /\ eLoop.pc = "idle"
            /\ eClients[eCurrent].sock = "open" /\ eClients'[eCurrent].sock = "closed"
            /\ ~eClosed')
          => eLoop'.pc = "connecting"]_vars
    /\ (eLoop.pc # "idle"
          ~> (\/ eLoop.pc = "idle" /\ UpstreamLive(eCurrent)
              \/ eLastEvent = "ws_reconnect_failed"
              \/ eClosed))

====
